---- MODULE Spec2Model ----
(***************************************************************************)
(* Model of the snap state module (src/saltext/snap/states/snap_mod.py).   *)
(*                                                                         *)
(* Every state function (installed, removed, enabled, ...) is one action:  *)
(* it reads and changes the provider (the snap execution module reached    *)
(* through __salt__) and produces the result record                        *)
(* {name, result, comment, changes}.  The provider is the environment: its *)
(* state is held in the variables below, and every mutating call has an    *)
(* outcome chosen by the environment ("ok": acknowledged and applied,      *)
(* "noop": acknowledged but without effect, "raise": CommandExecutionError)*)
(* A behaviour applies one state declaration (decl: a state function with  *)
(* its arguments) to a machine, up to MaxCalls times in a row.  The        *)
(* variable last holds the most recent application: the test flag, the     *)
(* environment's choices, the returned record and the ordered trace of     *)
(* provider queries and calls it made.  The environment injects failures   *)
(* into the first application only; the provider states a later            *)
(* application could fail in are initial states as well.  last.pre is the  *)
(* provider state the application started from and last.prev the test     *)
(* flag, environment and result of the application before it.             *)
(***************************************************************************)
EXTENDS Integers, Sequences, FiniteSets, TLC

VARIABLES
    snaps,        \* snap.list: installed snap name -> [channel, revision, held, enabled]
    known,        \* snap.known: TRUE iff the snap-revision assertion of the local file is imported
    options,      \* snap.options of the snap: option name -> value
    services,     \* snap.services: service name -> [running, enabled]
    slots,        \* snap.slots of the peer snap: slot name -> interface
    established,  \* snap.connections: set of [psnap, plug, ssnap, slot]
    decl,         \* the state declaration that is applied: function and arguments
    last,         \* the most recent application of the declaration
    ncalls        \* number of applications so far

vars == <<snaps, known, options, services, slots, established, decl, last, ncalls>>

\* ------------------------------------------------------------------------
\* Bounds of the model
\* ------------------------------------------------------------------------
MaxCalls == 2      \* applications of the declaration per behaviour

\* ------------------------------------------------------------------------
\* Python values
\* ------------------------------------------------------------------------
None == "None"                 \* None where the other values are strings
NOT_SET == "NOT_SET"           \* salt.defaults.NOT_SET
RTrue == "True"                \* ret["result"] is True / False / None
RFalse == "False"
TriState == {RTrue, RFalse, None}

PyNone == [t |-> "none"]
PyInt(n) == [t |-> "int", v |-> n]
PyStr(s) == [t |-> "str", s |-> s]

\* str(): decimal rendering of the small integers the model uses
str(x) == IF x.t = "str" THEN x.s
          ELSE IF x.t = "int" THEN (CASE x.v = 1 -> "1" [] x.v = 2 -> "2" [] OTHER -> "3")
          ELSE "None"

NoChanges == <<>>
IsEmpty(f) == DOMAIN f = {}
Range(s) == {s[i] : i \in DOMAIN s}

\* the provider state as one record (what the execution module would show)
Prov == [snaps |-> snaps, known |-> known, options |-> options,
         services |-> services, slots |-> slots, established |-> established]

\* ------------------------------------------------------------------------
\* Result records and trace events
\* ------------------------------------------------------------------------
Ret(result, text, changes) ==
    [result |-> result, text |-> text, testing |-> FALSE,
     detail |-> <<>>, changes |-> changes]

\* comment = str(err) + " - if we weren't testing, this would be an error"
RetTesting(text) ==
    [result |-> None, text |-> text, testing |-> TRUE,
     detail |-> <<>>, changes |-> NoChanges]

RetDetail(result, text, detail, changes) ==
    [result |-> result, text |-> text, testing |-> FALSE,
     detail |-> detail, changes |-> changes]

\* a provider query / a mutating provider call, as it appears in the trace
\* (c: the __salt__ function, s: the snap, service, option or connector it is
\* about, r: what a query returned / the outcome of a call, a: call arguments,
\* err: the error a query raised)
Query(c, s, r) == [k |-> "query", c |-> c, s |-> s, r |-> r, a |-> <<>>, err |-> "none"]
QueryErr(c, s, kind) == [k |-> "query", c |-> c, s |-> s, r |-> <<>>, a |-> <<>>, err |-> kind]
Call(c, s, r, a) == [k |-> "call", c |-> c, s |-> s, r |-> r, a |-> a, err |-> "none"]

Out(ret, trace, post) == [ret |-> ret, trace |-> trace, post |-> post, crashed |-> FALSE]

\* an exception that no handler of the function catches: nothing is returned
Crash(text, trace, post) ==
    [ret |-> Ret("Exception", text, NoChanges), trace |-> trace, post |-> post,
     crashed |-> TRUE]

Outcomes == {"ok", "noop", "raise"}

\* error texts
ErrNotInstalled == "snap is not installed"      \* SnapNotFound
ErrOther == "something else went wrong"         \* any other CommandExecutionError
ErrCall == "provider call failed"               \* a mutating call raised

\* A query of the provider may fail: env.qfail = [at |-> i, kind |-> e] makes
\* query i of the function raise e ("notfound" is SnapNotFound); the queries
\* made before the changes are applied are numbered in the order of the
\* source.  at = 0 injects nothing.
NoFail == [at |-> 0, kind |-> "none"]
QFail(env, i) == IF env.qfail.at = i THEN env.qfail.kind ELSE "none"
ErrText(kind) == IF kind = "notfound" THEN ErrNotInstalled ELSE ErrOther

\* a variant of the guard below that lets every error of the query pass in a
\* dry run
NotInstalledGuard_any(kind, test, trace, P) ==
    IF test
    THEN Out(RetTesting(ErrText(kind)), trace, P)
    ELSE Out(Ret(RFalse, ErrText(kind), NoChanges), trace, P)

\* except CommandExecutionError as err:
\*     if "is not installed" not in str(err) or not __opts__["test"]: raise
NotInstalledGuard(kind, test, trace, P) ==
    IF kind = "notfound" /\ test
    THEN Out(RetTesting(ErrNotInstalled), trace, P)
    ELSE Out(Ret(RFalse, ErrText(kind), NoChanges), trace, P)

\* ------------------------------------------------------------------------
\* Provider: snap.list / snap.is_enabled / snap.enable / snap.disable / snap.remove
\* ------------------------------------------------------------------------
SnapName == "app"

\* snap.list(name): {} or {name: data}
list_(P, name) == IF name \in DOMAIN P.snaps THEN (name :> P.snaps[name]) ELSE <<>>

\* snap.is_enabled(name): raises SnapNotFound when the snap is not listed
is_enabled(P, name, fail) ==
    IF fail # "none" THEN [err |-> fail, val |-> FALSE]
    ELSE IF name \notin DOMAIN P.snaps THEN [err |-> "notfound", val |-> FALSE]
    ELSE [err |-> "none", val |-> P.snaps[name].enabled]

SetEnabled(P, name, b) ==
    IF name \in DOMAIN P.snaps
    THEN [P EXCEPT !.snaps = [@ EXCEPT ![name] = [@ EXCEPT !.enabled = b]]]
    ELSE P

enable(P, name, outcome) == IF outcome = "ok" THEN SetEnabled(P, name, TRUE) ELSE P
disable(P, name, outcome) == IF outcome = "ok" THEN SetEnabled(P, name, FALSE) ELSE P

remove(P, name, outcome) ==
    IF outcome = "ok"
    THEN [P EXCEPT !.snaps = [n \in DOMAIN P.snaps \ {name} |-> P.snaps[n]]]
    ELSE P

\* ------------------------------------------------------------------------
\* enabled / disabled
\* ------------------------------------------------------------------------
enabled(P, name, test, env) ==
    LET q1 == is_enabled(P, name, QFail(env, 1))
        e1 == IF q1.err = "none" THEN Query("snap.is_enabled", name, q1.val)
              ELSE QueryErr("snap.is_enabled", name, q1.err)
        P2 == enable(P, name, env.act)
        e2 == Call("snap.enable", name, env.act, <<>>)
        q2 == is_enabled(P2, name, "none")
        e3 == IF q2.err = "none" THEN Query("snap.is_enabled", name, q2.val)
              ELSE QueryErr("snap.is_enabled", name, q2.err)
        changes == ("enabled" :> name)
    IN  IF q1.err # "none" THEN NotInstalledGuard(q1.err, test, <<e1>>, P)
        ELSE IF q1.val
        THEN Out(Ret(RTrue, "The snap is already enabled", NoChanges), <<e1>>, P)
        ELSE IF test
        THEN Out(Ret(None, "Would have enabled the snap", changes), <<e1>>, P)
        ELSE IF env.act = "raise"
        THEN Out(Ret(RFalse, ErrCall, NoChanges), <<e1, e2>>, P)
        ELSE IF q2.err # "none"
        THEN Out(Ret(RFalse, ErrText(q2.err), NoChanges), <<e1, e2, e3>>, P2)
        ELSE IF ~q2.val
        THEN Out(Ret(RFalse, "Tried to enable the snap, but it is still disabled",
                     NoChanges), <<e1, e2, e3>>, P2)
        ELSE Out(Ret(RTrue, "Enabled the snap", changes), <<e1, e2, e3>>, P2)

disabled(P, name, test, env) ==
    LET q1 == is_enabled(P, name, QFail(env, 1))
        e1 == IF q1.err = "none" THEN Query("snap.is_enabled", name, q1.val)
              ELSE QueryErr("snap.is_enabled", name, q1.err)
        P2 == disable(P, name, env.act)
        e2 == Call("snap.disable", name, env.act, <<>>)
        q2 == is_enabled(P2, name, "none")
        e3 == IF q2.err = "none" THEN Query("snap.is_enabled", name, q2.val)
              ELSE QueryErr("snap.is_enabled", name, q2.err)
        changes == ("disabled" :> name)
    IN  IF q1.err # "none" THEN NotInstalledGuard(q1.err, test, <<e1>>, P)
        ELSE IF ~q1.val
        THEN Out(Ret(RTrue, "The snap is already disabled", NoChanges), <<e1>>, P)
        ELSE IF test
        THEN Out(Ret(None, "Would have disabled the snap", changes), <<e1>>, P)
        ELSE IF env.act = "raise"
        THEN Out(Ret(RFalse, ErrCall, NoChanges), <<e1, e2>>, P)
        ELSE IF q2.err # "none"
        THEN Out(Ret(RFalse, ErrText(q2.err), NoChanges), <<e1, e2, e3>>, P2)
        ELSE IF q2.val
        THEN Out(Ret(RFalse, "Tried to disable the snap, but it is still enabled",
                     NoChanges), <<e1, e2, e3>>, P2)
        ELSE Out(Ret(RTrue, "Disabled the snap", changes), <<e1, e2, e3>>, P2)

\* ------------------------------------------------------------------------
\* removed
\* ------------------------------------------------------------------------
\* a variant of the function below that trusts the acknowledged snap.remove
removed_trusting(P, name, purge, test, env) ==
    LET curr == list_(P, name)
        e1 == Query("snap.list", name, curr)
        P2 == remove(P, name, env.act)
        e2 == Call("snap.remove", name, env.act, [purge |-> purge])
        e3 == Query("snap.list", name, list_(P2, name))
        changes == ("removed" :> name)
    IN  IF QFail(env, 1) # "none"
        THEN Out(Ret(RFalse, ErrText(QFail(env, 1)), NoChanges),
                 <<QueryErr("snap.list", name, QFail(env, 1))>>, P)
        ELSE IF IsEmpty(curr)
        THEN Out(Ret(RTrue, "The snap is already absent", NoChanges), <<e1>>, P)
        ELSE IF test
        THEN Out(Ret(None, "Would have removed the snap", changes), <<e1>>, P)
        ELSE IF env.act = "raise"
        THEN Out(Ret(RFalse, ErrCall, NoChanges), <<e1, e2>>, P)
        ELSE Out(Ret(RTrue, "Removed the snap", changes), <<e1, e2, e3>>, P2)

removed(P, name, purge, test, env) ==
    LET curr == list_(P, name)
        e1 == Query("snap.list", name, curr)
        P2 == remove(P, name, env.act)
        e2 == Call("snap.remove", name, env.act, [purge |-> purge])
        new == list_(P2, name)
        e3 == Query("snap.list", name, new)
        changes == ("removed" :> name)
    IN  IF QFail(env, 1) # "none"
        THEN Out(Ret(RFalse, ErrText(QFail(env, 1)), NoChanges),
                 <<QueryErr("snap.list", name, QFail(env, 1))>>, P)
        ELSE IF IsEmpty(curr)
        THEN Out(Ret(RTrue, "The snap is already absent", NoChanges), <<e1>>, P)
        ELSE IF test
        THEN Out(Ret(None, "Would have removed the snap", changes), <<e1>>, P)
        ELSE IF env.act = "raise"
        THEN Out(Ret(RFalse, ErrCall, NoChanges), <<e1, e2>>, P)
        ELSE IF ~IsEmpty(new)
        THEN Out(Ret(RFalse, "Tried to remove the snap, but it is still present",
                     NoChanges), <<e1, e2, e3>>, P2)
        ELSE Out(Ret(RTrue, "Removed the snap", changes), <<e1, e2, e3>>, P2)

\* ------------------------------------------------------------------------
\* Provider: local snap files, assertions, the store, install / hold / unhold
\* ------------------------------------------------------------------------
FileAbs == "/tmp/app_2.snap"         \* an existing local file holding revision 2 of the snap
FileMissing == "/tmp/missing.snap"   \* an absolute path that does not exist
FileRel == "tmp/app_2.snap"          \* a relative path
FileNames == {FileAbs, FileMissing, FileRel}
AssertFile == "/tmp/app_2.assert"    \* the assertions that accompany FileAbs
FileRev == PyInt(2)                  \* curr_assrts[0]["snap-revision"] as YAML loads it
NewestRev == "2"                     \* the newest revision the store offers
Latest == PyStr("latest")            \* the revision sentinel
DefaultChannel == "latest/stable"

isfile(name) == name \in FileNames                  \* name.endswith(".snap")
is_absolute(name) == name # FileRel                 \* Path(name).is_absolute()
exists(name) == name = FileAbs                      \* Path(name).exists()

\* snap.list_upgrades(): the installed snaps the store has another revision for
list_upgrades(P) ==
    [n \in {m \in DOMAIN P.snaps : P.snaps[m].revision # NewestRev} |->
        [revision |-> NewestRev]]

\* snap.known("snap-revision", snap-sha3-384=...): [] or [assertion]
known_(P) == IF P.known THEN <<[snap_revision |-> FileRev]>> ELSE <<>>

\* snap.ack(path)
ack(P, path, outcome) == IF outcome = "ok" THEN [P EXCEPT !.known = TRUE] ELSE P

\* snap.install(name, channel, revision, classic, refresh): "snap install" or
\* "snap refresh".  The command line takes a revision number: the sentinel
\* "latest" is not one and is rejected, as is an unsigned file, a refresh of
\* a snap that is not installed and an install of one that is.
install(P, name, channel, revision, classic, refresh, outcome) ==
    LET snap == IF isfile(name) THEN SnapName ELSE name
        present == snap \in DOMAIN P.snaps
        rejected == \/ outcome = "raise"
                    \/ revision = Latest
                    \/ isfile(name) /\ ~P.known
                    \/ refresh /\ ~present
                    \/ ~refresh /\ present /\ ~isfile(name)
        rec == IF isfile(name)
               THEN IF present THEN [P.snaps[snap] EXCEPT !.revision = str(FileRev)]
                    ELSE [channel |-> None, revision |-> str(FileRev),
                          held |-> FALSE, enabled |-> TRUE]
               ELSE IF present
               THEN [P.snaps[snap] EXCEPT
                        !.channel = IF channel # None THEN channel ELSE @,
                        !.revision = IF revision # PyNone THEN str(revision) ELSE @]
               ELSE [channel |-> IF channel # None THEN channel ELSE DefaultChannel,
                     revision |-> IF revision # PyNone THEN str(revision) ELSE NewestRev,
                     held |-> FALSE, enabled |-> TRUE]
    IN  IF rejected THEN [post |-> P, raised |-> TRUE]
        ELSE IF outcome = "noop" THEN [post |-> P, raised |-> FALSE]
        ELSE [post |-> [P EXCEPT !.snaps =
                           (snap :> rec) @@ [n \in DOMAIN P.snaps \ {snap} |-> P.snaps[n]]],
              raised |-> FALSE]

\* snap.hold(name) / snap.unhold(name): "snap refresh --hold / --unhold"
SetHeld(P, name, b, outcome) ==
    IF outcome = "raise" \/ name \notin DOMAIN P.snaps THEN [post |-> P, raised |-> TRUE]
    ELSE IF outcome = "noop" THEN [post |-> P, raised |-> FALSE]
    ELSE [post |-> [P EXCEPT !.snaps = [@ EXCEPT ![name] = [@ EXCEPT !.held = b]]],
          raised |-> FALSE]

hold(P, name, outcome) == SetHeld(P, name, TRUE, outcome)
unhold(P, name, outcome) == SetHeld(P, name, FALSE, outcome)

\* ------------------------------------------------------------------------
\* installed
\* ------------------------------------------------------------------------
\* a variant of _check_changes below that keeps revision = "latest" when the
\* store has no upgrade for the snap
installed_check_changes_keeping(P, name, curr, file, channel, revision, held) ==
    LET resolve == ~file /\ revision = Latest
        upgrades == list_upgrades(P)
        rev == IF resolve /\ name \in DOMAIN upgrades
               THEN PyStr(upgrades[name].revision)
               ELSE revision
        chan == IF ~file /\ channel # None /\ curr.channel # channel
                THEN ("channel" :> [old |-> curr.channel, new |-> channel]) ELSE <<>>
        hold_ == IF ~file /\ held # None /\ curr.held # (held = RTrue)
                 THEN ("held" :> [old |-> curr.held, new |-> (held = RTrue)]) ELSE <<>>
        revi == IF rev # PyNone /\ curr.revision # str(rev)
                THEN ("revision" :> [old |-> curr.revision, new |-> str(rev)]) ELSE <<>>
    IN  [changes |-> chan @@ hold_ @@ revi, revision |-> rev,
         trace |-> IF resolve THEN <<Query("snap.list_upgrades", name, upgrades)>> ELSE <<>>]

\* a variant of _check_changes below that reports every requested channel as
\* a change
installed_check_changes_rechannel(P, name, curr, file, channel, revision, held) ==
    LET resolve == ~file /\ revision = Latest
        upgrades == list_upgrades(P)
        rev == IF resolve
               THEN IF name \in DOMAIN upgrades
                    THEN PyStr(upgrades[name].revision) ELSE PyNone
               ELSE revision
        chan == IF ~file /\ channel # None
                THEN ("channel" :> [old |-> curr.channel, new |-> channel]) ELSE <<>>
        hold_ == IF ~file /\ held # None /\ curr.held # (held = RTrue)
                 THEN ("held" :> [old |-> curr.held, new |-> (held = RTrue)]) ELSE <<>>
        revi == IF rev # PyNone /\ curr.revision # str(rev)
                THEN ("revision" :> [old |-> curr.revision, new |-> str(rev)]) ELSE <<>>
    IN  [changes |-> chan @@ hold_ @@ revi, revision |-> rev,
         trace |-> IF resolve THEN <<Query("snap.list_upgrades", name, upgrades)>> ELSE <<>>]

\* a variant of _check_changes below that takes "latest" for no revision at
\* all, whatever the store offers
installed_check_changes_unresolved(P, name, curr, file, channel, revision, held) ==
    LET resolve == ~file /\ revision = Latest
        upgrades == list_upgrades(P)
        rev == IF resolve THEN PyNone ELSE revision
        chan == IF ~file /\ channel # None /\ curr.channel # channel
                THEN ("channel" :> [old |-> curr.channel, new |-> channel]) ELSE <<>>
        hold_ == IF ~file /\ held # None /\ curr.held # (held = RTrue)
                 THEN ("held" :> [old |-> curr.held, new |-> (held = RTrue)]) ELSE <<>>
        revi == IF rev # PyNone /\ curr.revision # str(rev)
                THEN ("revision" :> [old |-> curr.revision, new |-> str(rev)]) ELSE <<>>
    IN  [changes |-> chan @@ hold_ @@ revi, revision |-> rev,
         trace |-> IF resolve THEN <<Query("snap.list_upgrades", name, upgrades)>> ELSE <<>>]

\* installed.installed_check_changes(curr, isfile); the nonlocal revision is returned
\* with the changes, queried tells whether snap.list_upgrades was called
installed_check_changes(P, name, curr, file, channel, revision, held) ==
    LET resolve == ~file /\ revision = Latest
        upgrades == list_upgrades(P)
        rev == IF resolve
               THEN IF name \in DOMAIN upgrades
                    THEN PyStr(upgrades[name].revision) ELSE PyNone
               ELSE revision
        chan == IF ~file /\ channel # None /\ curr.channel # channel
                THEN ("channel" :> [old |-> curr.channel, new |-> channel]) ELSE <<>>
        hold_ == IF ~file /\ held # None /\ curr.held # (held = RTrue)
                 THEN ("held" :> [old |-> curr.held, new |-> (held = RTrue)]) ELSE <<>>
        revi == IF rev # PyNone /\ curr.revision # str(rev)
                THEN ("revision" :> [old |-> curr.revision, new |-> str(rev)]) ELSE <<>>
    IN  [changes |-> chan @@ hold_ @@ revi, revision |-> rev,
         trace |-> IF resolve THEN <<Query("snap.list_upgrades", name, upgrades)>> ELSE <<>>]

\* verb.capitalize()
capitalize(verb) == IF verb = "modified" THEN "Modified" ELSE "Installed"

\* a variant of the pruning below that removes nothing
Pop_nothing(changes, keys) == changes

\* changes.pop(key, None) for every key in keys
Pop(changes, keys) == [k \in DOMAIN changes \ keys |-> changes[k]]

\* a variant of the function below that does not look at what snap.known
\* gives after snap.ack
installed_file_trusting(P, name, assertions, test, env) ==
    LET e1 == Query("snap.info", name, SnapName)
        e2 == Query("snap.known", name, known_(P))
        P2 == ack(P, assertions, env.ack)
        e3 == Call("snap.ack", assertions, env.ack, <<>>)
        e4 == Query("snap.known", name, known_(P2))
        Done(out) == [done |-> TRUE, out |-> out]
    IN  IF ~is_absolute(name)
        THEN Done(Out(Ret(RFalse, "Specified path is not absolute", NoChanges), <<>>, P))
        ELSE IF ~exists(name)
        THEN IF test
             THEN Done(Out(RetTesting("Specified path does not exist"), <<>>, P))
             ELSE Done(Out(Ret(RFalse, "Specified path does not exist", NoChanges), <<>>, P))
        ELSE IF known_(P) # <<>>
        THEN [done |-> FALSE, post |-> P, trace |-> <<e1, e2>>]
        ELSE IF test
        THEN IF assertions # None
             THEN Done(Out(Ret(None, "Would have imported assertions and installed the snap",
                               ("installed" :> name)), <<e1, e2>>, P))
             ELSE Done(Out(RetTesting("Missing assertions"), <<e1, e2>>, P))
        ELSE IF assertions = None
        THEN Done(Out(Ret(RFalse, "Missing assertions, either import them or pass the assertions file",
                          NoChanges), <<e1, e2>>, P))
        ELSE IF env.ack = "raise"
        THEN Done(Out(Ret(RFalse, ErrCall, NoChanges), <<e1, e2, e3>>, P))
        ELSE [done |-> FALSE, post |-> P2, trace |-> <<e1, e2, e3, e4>>]

\* lines 341-376: the local file, its snap-revision assertion and snap.ack.
\* done: the function returned (or raised) here; otherwise revision is the
\* assertion's.
installed_file(P, name, assertions, test, env) ==
    LET e1 == Query("snap.info", name, SnapName)
        e2 == Query("snap.known", name, known_(P))
        P2 == ack(P, assertions, env.ack)
        e3 == Call("snap.ack", assertions, env.ack, <<>>)
        e4 == Query("snap.known", name, known_(P2))
        Done(out) == [done |-> TRUE, out |-> out]
    IN  IF ~is_absolute(name)
        THEN Done(Out(Ret(RFalse, "Specified path is not absolute", NoChanges), <<>>, P))
        ELSE IF ~exists(name)
        THEN IF test
             THEN Done(Out(RetTesting("Specified path does not exist"), <<>>, P))
             ELSE Done(Out(Ret(RFalse, "Specified path does not exist", NoChanges), <<>>, P))
        ELSE IF known_(P) # <<>>
        THEN [done |-> FALSE, post |-> P, trace |-> <<e1, e2>>]
        ELSE IF test
        THEN IF assertions # None
             THEN Done(Out(Ret(None, "Would have imported assertions and installed the snap",
                               ("installed" :> name)), <<e1, e2>>, P))
             ELSE Done(Out(RetTesting("Missing assertions"), <<e1, e2>>, P))
        ELSE IF assertions = None
        THEN Done(Out(Ret(RFalse, "Missing assertions, either import them or pass the assertions file",
                          NoChanges), <<e1, e2>>, P))
        ELSE IF env.ack = "raise"
        THEN Done(Out(Ret(RFalse, ErrCall, NoChanges), <<e1, e2, e3>>, P))
        ELSE IF known_(P2) = <<>>
        THEN Done(Out(Ret(RFalse, "Imported assertions, but still could not find snap-revision",
                          NoChanges), <<e1, e2, e3, e4>>, P2))
        ELSE [done |-> FALSE, post |-> P2, trace |-> <<e1, e2, e3, e4>>]

\* The arguments of installed as one record:
\* [name, snap_name, file, channel, revision, classic, held], revision being
\* the nonlocal revision as _check_changes left it.

\* lines 405-420: query again and compare; applied are the changes made
installed_verify(P, a, applied, verb, trace, new) ==
    LET t4 == trace \o <<Query("snap.list", a.snap_name, new)>>
        chk == installed_check_changes(P, a.name, new[a.snap_name], a.file, a.channel,
                                       a.revision, a.held)
    IN  IF IsEmpty(new)
        THEN Out(Ret(RFalse, capitalize(verb) \o " the snap, but it could not be found afterwards",
                     NoChanges), t4, P)
        ELSE IF ~IsEmpty(chk.changes)
        THEN Out(RetDetail(RFalse, capitalize(verb) \o " the snap, but there are still pending changes",
                           chk.changes, Pop(applied, DOMAIN chk.changes)),
                 t4 \o chk.trace, P)
        ELSE Out(Ret(RTrue, capitalize(verb) \o " the snap", applied), t4 \o chk.trace, P)

\* lines 401-404: snap.hold / snap.unhold if "held" is among the changes;
\* h is what the call did
installed_hold(P, a, changes, verb, trace, env, h) ==
    LET do_hold == "held" \in DOMAIN changes
        func == IF a.held = RTrue THEN "snap.hold" ELSE "snap.unhold"
        e_h == Call(func, a.name, IF h.raised THEN "raise" ELSE env.hold, <<>>)
        t3 == IF do_hold THEN trace \o <<e_h>> ELSE trace
        P3 == IF do_hold THEN h.post ELSE P
    IN  IF do_hold /\ h.raised
        THEN Out(Ret(RFalse, ErrCall, NoChanges), t3, P3)
        ELSE installed_verify(P3, a, changes, verb, t3, list_(P3, a.snap_name))

\* a variant of the step below that calls snap.install whatever the changes are
installed_install_always(P, a, curr, changes, verb, trace, env, i) ==
    LET e_i == Call("snap.install", a.name, IF i.raised THEN "raise" ELSE env.install,
                    [channel |-> a.channel,
                     revision |-> IF a.file THEN PyNone ELSE a.revision,
                     classic |-> a.classic, refresh |-> ~IsEmpty(curr) /\ ~a.file])
    IN  IF i.raised
        THEN Out(Ret(RFalse, ErrCall, NoChanges), trace \o <<e_i>>, i.post)
        ELSE installed_hold(i.post, a, changes, verb, trace \o <<e_i>>, env,
                            IF a.held = RTrue THEN hold(i.post, a.name, env.hold)
                            ELSE unhold(i.post, a.name, env.hold))

\* lines 391-400: snap.install if anything but "held" is among the changes;
\* i is what the call did
installed_install(P, a, curr, changes, verb, trace, env, i) ==
    LET do_install == ~IsEmpty(Pop(changes, {"held"}))
        e_i == Call("snap.install", a.name, IF i.raised THEN "raise" ELSE env.install,
                    [channel |-> a.channel,
                     revision |-> IF a.file THEN PyNone ELSE a.revision,
                     classic |-> a.classic, refresh |-> ~IsEmpty(curr) /\ ~a.file])
        t2 == IF do_install THEN trace \o <<e_i>> ELSE trace
        P2 == IF do_install THEN i.post ELSE P
    IN  IF do_install /\ i.raised
        THEN Out(Ret(RFalse, ErrCall, NoChanges), t2, P2)
        ELSE installed_hold(P2, a, changes, verb, t2, env,
                            IF a.held = RTrue THEN hold(P2, a.name, env.hold)
                            ELSE unhold(P2, a.name, env.hold))

\* lines 391-420: apply the changes, query again and compare
installed_apply(P, a, curr, changes, verb, trace, env) ==
    installed_install(P, a, curr, changes, verb, trace, env,
                      install(P, a.name, a.channel,
                              IF a.file THEN PyNone ELSE a.revision, a.classic,
                              ~IsEmpty(curr) /\ ~a.file, env.install))

\* lines 377-390: the changes to make; curr is the listing and chk what
\* _check_changes(curr[snap_name]) gives for a snap that is present
installed_plan(P, a, test, trace, env, curr, chk) ==
    LET present == ~IsEmpty(curr)
        t1 == trace \o <<Query("snap.list", a.snap_name, curr)>>
        changes == IF present THEN chk.changes ELSE ("installed" :> a.name)
        verb == IF present THEN "modified" ELSE "installed"
        t2 == IF present THEN t1 \o chk.trace ELSE t1
    IN  IF QFail(env, 1) # "none"
        THEN Out(Ret(RFalse, ErrText(QFail(env, 1)), NoChanges),
                 trace \o <<QueryErr("snap.list", a.snap_name, QFail(env, 1))>>, P)
        ELSE IF IsEmpty(changes)
        THEN Out(Ret(RTrue, "The snap is already installed as specified", NoChanges), t2, P)
        ELSE IF test
        THEN Out(Ret(None, "Would have " \o verb \o " the snap", changes), t2, P)
        ELSE installed_apply(P, IF present THEN [a EXCEPT !.revision = chk.revision] ELSE a,
                             curr, changes, verb, t2, env)

\* lines 341-390: pre is what the handling of a local file gave
installed_query(a, test, env, pre) ==
    IF pre.done THEN pre.out
    ELSE installed_plan(pre.post, a, test, pre.trace, env,
                        list_(pre.post, a.snap_name),
                        installed_check_changes(pre.post, a.name,
                                                list_(pre.post, a.snap_name)[a.snap_name],
                                                a.file, a.channel, a.revision, a.held))

installed(P, name, channel, revision, classic, held, assertions, test, env) ==
    installed_query([name |-> name,
                     snap_name |-> IF isfile(name) THEN SnapName ELSE name,
                     file |-> isfile(name), channel |-> channel,
                     revision |-> IF isfile(name) THEN FileRev ELSE revision,
                     classic |-> classic, held |-> held],
                    test, env,
                    IF isfile(name) THEN installed_file(P, name, assertions, test, env)
                    ELSE [done |-> FALSE, post |-> P, trace |-> <<>>])

\* ------------------------------------------------------------------------
\* Provider: snap.options / snap.option_set / snap.option_unset
\* ------------------------------------------------------------------------
\* snap.options(name): raises SnapNotFound when the snap is not installed
options_(P, name, fail) ==
    IF fail # "none" THEN [err |-> fail, val |-> <<>>]
    ELSE IF name \notin DOMAIN P.snaps THEN [err |-> "notfound", val |-> <<>>]
    ELSE [err |-> "none", val |-> P.options]

option_set(P, option, value, outcome) ==
    IF outcome = "ok"
    THEN [P EXCEPT !.options = (option :> value) @@ P.options]
    ELSE P

option_unset(P, option, outcome) ==
    IF outcome = "ok"
    THEN [P EXCEPT !.options = [k \in DOMAIN P.options \ {option} |-> P.options[k]]]
    ELSE P

\* ------------------------------------------------------------------------
\* option_managed.  The options mapping is a sequence of [k, v] with distinct
\* keys, in the order of the dict; None and {} are both <<>>.
\* ------------------------------------------------------------------------
Keys(opts) == {opts[i].k : i \in DOMAIN opts}
KeySeq(opts) == [i \in DOMAIN opts |-> opts[i].k]

\* a variant of the diff below that unsets every option whose desired value
\* is None, present or not
option_check_changes_unsetting(opts, data) ==
    LET Unset(o) == o.v = None
        Set(o) == o.v # None /\ (o.k \notin DOMAIN data \/ data[o.k] # o.v)
        Entry(o) == IF o.k \notin DOMAIN data
                    THEN [old |-> None, new |-> o.v, flag |-> IF o.v = None THEN "unset" ELSE "set"]
                    ELSE IF o.v = None
                    THEN [old |-> data[o.k], new |-> None, flag |-> "unset"]
                    ELSE [old |-> data[o.k], new |-> o.v, flag |-> "none"]
        changed == {i \in DOMAIN opts : Unset(opts[i]) \/ Set(opts[i])}
    IN  [changes |-> [k \in {opts[i].k : i \in changed} |->
                        Entry(opts[CHOOSE i \in changed : opts[i].k = k])],
         to_set |-> KeySeq(SelectSeq(opts, Set)),
         to_unset |-> KeySeq(SelectSeq(opts, Unset))]

\* a variant of the diff below that marks every value to be written as "set"
option_check_changes_flagging(opts, data) ==
    LET Unset(o) == o.v = None /\ o.k \in DOMAIN data
        Set(o) == o.v # None /\ (o.k \notin DOMAIN data \/ data[o.k] # o.v)
        Entry(o) == IF o.v = None
                    THEN [old |-> data[o.k], new |-> None, flag |-> "unset"]
                    ELSE IF o.k \notin DOMAIN data
                    THEN [old |-> None, new |-> o.v, flag |-> "set"]
                    ELSE [old |-> data[o.k], new |-> o.v, flag |-> "set"]
        changed == {i \in DOMAIN opts : Unset(opts[i]) \/ Set(opts[i])}
    IN  [changes |-> [k \in {opts[i].k : i \in changed} |->
                        Entry(opts[CHOOSE i \in changed : opts[i].k = k])],
         to_set |-> KeySeq(SelectSeq(opts, Set)),
         to_unset |-> KeySeq(SelectSeq(opts, Unset))]

\* a variant of the diff below that collects to_set from the end of the mapping
option_check_changes_backwards(opts, data) ==
    LET Unset(o) == o.v = None /\ o.k \in DOMAIN data
        Set(o) == o.v # None /\ (o.k \notin DOMAIN data \/ data[o.k] # o.v)
        Entry(o) == IF o.v = None
                    THEN [old |-> data[o.k], new |-> None, flag |-> "unset"]
                    ELSE IF o.k \notin DOMAIN data
                    THEN [old |-> None, new |-> o.v, flag |-> "set"]
                    ELSE [old |-> data[o.k], new |-> o.v, flag |-> "none"]
        changed == {i \in DOMAIN opts : Unset(opts[i]) \/ Set(opts[i])}
        sets == KeySeq(SelectSeq(opts, Set))
    IN  [changes |-> [k \in {opts[i].k : i \in changed} |->
                        Entry(opts[CHOOSE i \in changed : opts[i].k = k])],
         to_set |-> [i \in DOMAIN sets |-> sets[Len(sets) + 1 - i]],
         to_unset |-> KeySeq(SelectSeq(opts, Unset))]

\* option_managed._check_changes(data)
option_check_changes(opts, data) ==
    LET Unset(o) == o.v = None /\ o.k \in DOMAIN data
        Set(o) == o.v # None /\ (o.k \notin DOMAIN data \/ data[o.k] # o.v)
        Entry(o) == IF o.v = None
                    THEN [old |-> data[o.k], new |-> None, flag |-> "unset"]
                    ELSE IF o.k \notin DOMAIN data
                    THEN [old |-> None, new |-> o.v, flag |-> "set"]
                    ELSE [old |-> data[o.k], new |-> o.v, flag |-> "none"]
        changed == {i \in DOMAIN opts : Unset(opts[i]) \/ Set(opts[i])}
    IN  [changes |-> [k \in {opts[i].k : i \in changed} |->
                        Entry(opts[CHOOSE i \in changed : opts[i].k = k])],
         to_set |-> KeySeq(SelectSeq(opts, Set)),
         to_unset |-> KeySeq(SelectSeq(opts, Unset))]

\* a variant of the loops below that ends at the first call that raises
RECURSIVE option_loop_aborting(_, _, _, _, _, _)
option_loop_aborting(P, todo, changes, acts, unset, acc) ==
    IF todo = <<>> \/ acc.errs # {} THEN [acc EXCEPT !.post = P]
    ELSE option_loop_aborting(
            IF unset THEN option_unset(P, Head(todo), acts[Head(todo)])
            ELSE option_set(P, Head(todo), changes[Head(todo)].new, acts[Head(todo)]),
            Tail(todo), changes, acts, unset,
            [post |-> P,
             trace |-> Append(acc.trace,
                              Call(IF unset THEN "snap.option_unset" ELSE "snap.option_set",
                                   Head(todo), acts[Head(todo)],
                                   IF unset THEN <<>> ELSE changes[Head(todo)].new)),
             done |-> acc.done \cup (IF acts[Head(todo)] = "raise" THEN {} ELSE {Head(todo)}),
             errs |-> acc.errs \cup (IF acts[Head(todo)] = "raise" THEN {Head(todo)} ELSE {})])

\* lines 496-508: the two loops; acts[opt] is the outcome of the call for opt,
\* acc what the iterations so far did: [post, trace, done, errs]
RECURSIVE option_loop(_, _, _, _, _, _)
option_loop(P, todo, changes, acts, unset, acc) ==
    IF todo = <<>> THEN [acc EXCEPT !.post = P]
    ELSE option_loop(
            IF unset THEN option_unset(P, Head(todo), acts[Head(todo)])
            ELSE option_set(P, Head(todo), changes[Head(todo)].new, acts[Head(todo)]),
            Tail(todo), changes, acts, unset,
            [post |-> P,
             trace |-> Append(acc.trace,
                              Call(IF unset THEN "snap.option_unset" ELSE "snap.option_set",
                                   Head(todo), acts[Head(todo)],
                                   IF unset THEN <<>> ELSE changes[Head(todo)].new)),
             done |-> acc.done \cup (IF acts[Head(todo)] = "raise" THEN {} ELSE {Head(todo)}),
             errs |-> acc.errs \cup (IF acts[Head(todo)] = "raise" THEN {Head(todo)} ELSE {})])

\* lines 512-521: q2 is the second snap.options query
option_verify(P, name, desired, applied, trace, q2) ==
    LET e2 == IF q2.err = "none" THEN Query("snap.options", name, q2.val)
              ELSE QueryErr("snap.options", name, q2.err)
        new == option_check_changes(desired, q2.val)
    IN  IF q2.err # "none"
        THEN Out(Ret(RFalse, ErrText(q2.err), applied), Append(trace, e2), P)
        ELSE IF ~IsEmpty(new.changes)
        THEN Out(RetDetail(RFalse, "Modified some snap options, but there are still pending changes",
                           new.changes, Pop(applied, DOMAIN new.changes)),
                 Append(trace, e2), P)
        ELSE Out(Ret(RTrue, "Modified some options", applied), Append(trace, e2), P)

\* a variant of the report below that lists every planned change as made
option_applied_all(name, desired, chk, loop) ==
    IF loop.errs # {}
    THEN Out(RetDetail(RFalse, "Encountered some errors",
                       [k \in loop.errs |-> ErrCall], chk.changes), loop.trace, loop.post)
    ELSE option_verify(loop.post, name, desired, chk.changes, loop.trace,
                       options_(loop.post, name, "none"))

\* lines 509-511: loop is what the two loops did
option_applied(name, desired, chk, loop) ==
    LET applied == [k \in loop.done |-> chk.changes[k]]
    IN  IF loop.errs # {}
        THEN Out(RetDetail(RFalse, "Encountered some errors",
                           [k \in loop.errs |-> ErrCall], applied), loop.trace, loop.post)
        ELSE option_verify(loop.post, name, desired, applied, loop.trace,
                           options_(loop.post, name, "none"))

\* lines 496-508: the unsets, un, and then the sets
option_apply(name, desired, chk, env, un) ==
    option_applied(name, desired, chk,
                   option_loop(un.post, chk.to_set, chk.changes, env.acts, FALSE, un))

\* a variant of the plan below that does not look at __opts__["test"]
option_plan_untested(P, name, desired, test, env, e1, chk) ==
    IF IsEmpty(chk.changes)
    THEN Out(Ret(RTrue, "All options are in the correct state", NoChanges), <<e1>>, P)
    ELSE option_apply(name, desired, chk, env,
                      option_loop(P, chk.to_unset, chk.changes, env.acts, TRUE,
                                  [post |-> P, trace |-> <<e1>>, done |-> {}, errs |-> {}]))

\* lines 488-495: chk is _check_changes(curr)
option_plan(P, name, desired, test, env, e1, chk) ==
    IF IsEmpty(chk.changes)
    THEN Out(Ret(RTrue, "All options are in the correct state", NoChanges), <<e1>>, P)
    ELSE IF test
    THEN Out(Ret(None, "Would have modified some options", chk.changes), <<e1>>, P)
    ELSE option_apply(name, desired, chk, env,
                      option_loop(P, chk.to_unset, chk.changes, env.acts, TRUE,
                                  [post |-> P, trace |-> <<e1>>, done |-> {}, errs |-> {}]))

\* lines 480-488: q1 is the snap.options query
option_query(P, name, desired, test, env, q1) ==
    IF q1.err # "none"
    THEN NotInstalledGuard(q1.err, test, <<QueryErr("snap.options", name, q1.err)>>, P)
    ELSE option_plan(P, name, desired, test, env, Query("snap.options", name, q1.val),
                     option_check_changes(desired, q1.val))

\* a variant of the function below in which a mapping takes precedence over
\* a pair given with it
option_managed_lenient(P, name, option, value, opts, test, env) ==
    LET single == option # None /\ value # NOT_SET
        given == opts # <<>>
    IN  IF ~(single \/ given)
        THEN Out(Ret(RFalse, "Either option and value or options are required", NoChanges),
                 <<>>, P)
        ELSE option_query(P, name, IF given THEN opts ELSE <<[k |-> option, v |-> value]>>,
                          test, env, options_(P, name, QFail(env, 1)))

option_managed(P, name, option, value, opts, test, env) ==
    LET single == option # None /\ value # NOT_SET
        given == opts # <<>>
    IN  IF ~(single \/ given)
        THEN Out(Ret(RFalse, "Either option and value or options are required", NoChanges),
                 <<>>, P)
        ELSE IF single /\ given
        THEN Out(Ret(RFalse, "Either specify option and value or options, not both variants",
                     NoChanges), <<>>, P)
        ELSE option_query(P, name, IF given THEN opts ELSE <<[k |-> option, v |-> value]>>,
                          test, env, options_(P, name, QFail(env, 1)))

\* ------------------------------------------------------------------------
\* Provider: snap services
\* ------------------------------------------------------------------------
OtherSnap == "web"
SvcOrder == <<"app.s1", "app.s2", "web.s1">>     \* the order of a services listing
SvcNames == Range(SvcOrder)
SnapOf(serv) == IF serv = "web.s1" THEN OtherSnap ELSE SnapName
ServiceArgs == {"s1", "s2"}

\* snap.services(name) / snap.services(snap=snap): the listing as a sequence
\* of service names (the status is in P.services); err is "none", or "other"
\* for CommandExecutionError("No such service")
services_(P, name, snap, fail) ==
    LET listed == SelectSeq(SvcOrder, LAMBDA n : n \in DOMAIN P.services)
    IN  IF fail # "none" THEN [err |-> fail, val |-> <<>>]
        ELSE IF name # None
        THEN IF name \in DOMAIN P.services THEN [err |-> "none", val |-> <<name>>]
             ELSE [err |-> "other", val |-> <<>>]
        ELSE [err |-> "none",
              val |-> SelectSeq(listed, LAMBDA n : SnapOf(n) = snap)]   \* startswith(f"{snap}.")

\* time.sleep(0.25): the clock is counted in polls, PollsPerSecond per second
PollsPerSecond == 4
DefaultTimeout == 10
MaxTimeout == 1
Timeouts == (0 .. MaxTimeout) \cup {DefaultTimeout}

\* What the environment decides for one service: the outcome of the
\* start/stop/restart call and, when it is applied ("ok"), after how many
\* polls the service reports the running / the enabled value waited for:
\* at once, or just too late for a timeout of t seconds.  After "noop" it
\* never does.
Delays == {0} \cup {t * PollsPerSecond + 2 : t \in 0 .. MaxTimeout}

\* a variant of the function below that raises as soon as the elapsed time
\* reaches the timeout
RECURSIVE Timer_reaching(_, _, _, _)
Timer_reaching(comes, delay, timeout, i) ==
    IF comes /\ i >= delay THEN [ok |-> TRUE, polls |-> i + 1]
    ELSE IF i >= timeout * PollsPerSecond THEN [ok |-> FALSE, polls |-> i + 1]
    ELSE Timer_reaching(comes, delay, timeout, i + 1)

\* _timer(func, serv, check_exp, timeout, msg): i is the number of sleeps so
\* far; func(serv) is check_exp from poll number delay on if comes, and never
\* otherwise.  ok: returned normally; polls: evaluations of func
RECURSIVE Timer(_, _, _, _)
Timer(comes, delay, timeout, i) ==
    IF comes /\ i >= delay THEN [ok |-> TRUE, polls |-> i + 1]
    ELSE IF i > timeout * PollsPerSecond THEN [ok |-> FALSE, polls |-> i + 1]
    ELSE Timer(comes, delay, timeout, i + 1)

_timer(comes, delay, timeout) == Timer(comes, delay, timeout, 0)

\* the polls of one _timer call in the trace: r is the value of the last poll
Poll(c, serv, r, t, timeout) ==
    [k |-> "query", c |-> c, s |-> serv, r |-> r,
     a |-> [polls |-> t.polls, timeout |-> timeout], err |-> "none"]

SetRunning(P, serv, b) ==
    [P EXCEPT !.services = [@ EXCEPT ![serv] = [@ EXCEPT !.running = b]]]
SetSvcEnabled(P, serv, b) ==
    [P EXCEPT !.services = [@ EXCEPT ![serv] = [@ EXCEPT !.enabled = b]]]

\* ------------------------------------------------------------------------
\* _check_service_changes(name, service, running, enabled); enabled is
\* "True", "False" or None
\* ------------------------------------------------------------------------
_check_service_changes(P, name, service, running, enabled_, fail) ==
    LET q == IF service # None THEN services_(P, name \o "." \o service, None, fail)
             ELSE services_(P, None, name, fail)
        ev == IF q.err = "none" THEN Query("snap.services", name, q.val)
              ELSE QueryErr("snap.services", name, q.err)
    IN  IF q.err # "none" THEN [err |-> q.err, trace |-> <<ev>>]
        ELSE IF q.val = <<>> THEN [err |-> "NoServices", trace |-> <<ev>>]
        ELSE [err |-> "none", trace |-> <<ev>>,
              running_state |-> SelectSeq(q.val,
                                    LAMBDA n : P.services[n].running # running),
              enable_state |-> SelectSeq(q.val,
                                    LAMBDA n : enabled_ # None
                                        /\ P.services[n].enabled # (enabled_ = RTrue))]

\* ------------------------------------------------------------------------
\* service_running / service_dead
\* ------------------------------------------------------------------------
\* a variant of the iteration below that reports the service as enabled /
\* disabled when the call was made, before the wait for it
service_waits_early(P, serv, in1, in2, flag, timeout, e, up, t1, t2) ==
    LET c1 == Call(IF up THEN "snap.service_start" ELSE "snap.service_stop",
                   serv, e.call, [flag |-> flag])
        p1 == Poll("snap.service_running", serv, IF t1.ok THEN up ELSE ~up, t1, timeout)
        budget == IF in1 THEN 1 ELSE timeout
        p2 == Poll("snap.service_enabled", serv, IF t2.ok THEN up ELSE ~up, t2, budget)
        P1 == IF in1 /\ t1.ok THEN SetRunning(P, serv, up) ELSE P
        P2 == IF in2 /\ t2.ok THEN SetSvcEnabled(P1, serv, up) ELSE P1
        tr1 == IF in1 THEN <<c1, p1>> ELSE <<c1>>
    IN  IF e.call = "raise"
        THEN [post |-> P, trace |-> <<c1>>, first |-> FALSE, second |-> FALSE,
              err |-> ErrCall]
        ELSE IF in1 /\ ~t1.ok
        THEN [post |-> P, trace |-> tr1, first |-> FALSE, second |-> in2,
              err |-> "Tried to start or stop the snap service, but it did not change"]
        ELSE IF in2 /\ ~t2.ok
        THEN [post |-> P1, trace |-> tr1 \o <<p2>>, first |-> in1, second |-> in2,
              err |-> "Tried to enable or disable the snap service, but it did not change"]
        ELSE [post |-> P2, trace |-> IF in2 THEN tr1 \o <<p2>> ELSE tr1,
              first |-> in1, second |-> in2, err |-> "none"]

\* One iteration of the loop of service_running (lines 617-639, up = TRUE)
\* or service_dead (lines 704-726, up = FALSE) for serv.  first is start/stop,
\* second is enable/disable, flag the enabled/disabled argument, e the
\* environment's choice for serv; t1 and t2 are what the two waits give.
service_waits(P, serv, in1, in2, flag, timeout, e, up, t1, t2) ==
    LET c1 == Call(IF up THEN "snap.service_start" ELSE "snap.service_stop",
                   serv, e.call, [flag |-> flag])
        p1 == Poll("snap.service_running", serv, IF t1.ok THEN up ELSE ~up, t1, timeout)
        budget == IF in1 THEN 1 ELSE timeout
        p2 == Poll("snap.service_enabled", serv, IF t2.ok THEN up ELSE ~up, t2, budget)
        P1 == IF in1 /\ t1.ok THEN SetRunning(P, serv, up) ELSE P
        P2 == IF in2 /\ t2.ok THEN SetSvcEnabled(P1, serv, up) ELSE P1
        tr1 == IF in1 THEN <<c1, p1>> ELSE <<c1>>
    IN  IF e.call = "raise"
        THEN [post |-> P, trace |-> <<c1>>, first |-> FALSE, second |-> FALSE,
              err |-> ErrCall]
        ELSE IF in1 /\ ~t1.ok
        THEN [post |-> P, trace |-> tr1, first |-> FALSE, second |-> FALSE,
              err |-> IF up THEN "Tried to start the snap service, but it is still not running"
                      ELSE "Tried to stop the snap service, but it is still running"]
        ELSE IF in2 /\ ~t2.ok
        THEN [post |-> P1, trace |-> tr1 \o <<p2>>, first |-> in1, second |-> FALSE,
              err |-> IF up THEN "Tried to enable the snap service, but it is still not enabled"
                      ELSE "Tried to disable the snap service, but it is still enabled"]
        ELSE [post |-> P2, trace |-> IF in2 THEN tr1 \o <<p2>> ELSE tr1,
              first |-> in1, second |-> in2, err |-> "none"]

service_one(P, serv, first, second, flag, timeout, e, up) ==
    service_waits(P, serv, serv \in Range(first), serv \in Range(second), flag, timeout,
                  e, up,
                  _timer(e.call = "ok", e.rdelay, timeout),
                  _timer(e.call = "ok", e.edelay,
                         IF serv \in Range(first) THEN 1 ELSE timeout))

\* set(start + enable) as the loop iterates it: a Python set of strings has
\* no defined order, hashorder is the order this run happens to give the
\* service names
set_order(hashorder, lst) == SelectSeq(hashorder, LAMBDA n : n \in Range(lst))

\* for serv in set(start + enable), order being the iteration order; acc is
\* what the iterations so far did: [post, trace, first, second, errs], first
\* and second being ret["changes"]["started"/"stopped"] and
\* ["enabled"/"disabled"]
RECURSIVE service_loop(_, _, _, _, _, _, _, _, _)
RECURSIVE service_next(_, _, _, _, _, _, _, _, _)
service_loop(P, order, first, second, flag, timeout, envs, up, acc) ==
    IF order = <<>> THEN [acc EXCEPT !.post = P]
    ELSE service_next(order, first, second, flag, timeout, envs, up, acc,
                      service_one(P, Head(order), first, second, flag, timeout,
                                  envs[Head(order)], up))

service_next(order, first, second, flag, timeout, envs, up, acc, one) ==
    service_loop(one.post, Tail(order), first, second, flag, timeout, envs, up,
                 [post |-> one.post,
                  trace |-> acc.trace \o one.trace,
                  first |-> IF one.first THEN Append(acc.first, Head(order)) ELSE acc.first,
                  second |-> IF one.second THEN Append(acc.second, Head(order))
                             ELSE acc.second,
                  errs |-> IF one.err # "none" THEN (Head(order) :> one.err) @@ acc.errs
                           ELSE acc.errs])

\* the changes of a service function: the non-empty lists only
ListChanges(k1, l1, k2, l2) ==
    (IF l1 # <<>> THEN (k1 :> l1) ELSE <<>>) @@ (IF l2 # <<>> THEN (k2 :> l2) ELSE <<>>)

\* except NoServices as err: if not __opts__["test"]: raise
NoServicesGuard(err, test, trace, P) ==
    IF err = "NoServices"
    THEN IF test THEN Out(RetTesting("Did not find any service to manage"), trace, P)
         ELSE Out(Ret(RFalse, "Did not find any service to manage", NoChanges), trace, P)
    ELSE Out(Ret(RFalse, ErrText(err), NoChanges), trace, P)

\* lines 640-650 / 727-737: loop is what the loop did
service_done(text, k1, k2, loop) ==
    IF ~IsEmpty(loop.errs)
    THEN Out(RetDetail(RFalse, "Encountered some errors", loop.errs,
                       ListChanges(k1, loop.first, k2, loop.second)),
             loop.trace, loop.post)
    ELSE Out(Ret(RTrue, text, ListChanges(k1, loop.first, k2, loop.second)),
             loop.trace, loop.post)

\* lines 599-643: chk is what _check_service_changes gave
service_running_plan(P, enabled_, timeout, test, env, chk) ==
    IF chk.err # "none" THEN NoServicesGuard(chk.err, test, chk.trace, P)
    ELSE IF chk.running_state = <<>> /\ chk.enable_state = <<>>
    THEN Out(Ret(RTrue, "All services are in the correct state", NoChanges), chk.trace, P)
    ELSE IF test
    THEN Out(Ret(None, "Would have started/enabled some services",
                 ListChanges("started", chk.running_state, "enabled", chk.enable_state)),
             chk.trace, P)
    ELSE service_done("Started/enabled some services", "started", "enabled",
            service_loop(P, set_order(env.order, chk.running_state \o chk.enable_state),
                         chk.running_state, chk.enable_state, enabled_, timeout,
                         env.svc, TRUE,
                         [post |-> P, trace |-> chk.trace, first |-> <<>>,
                          second |-> <<>>, errs |-> <<>>]))

\* a variant of the function below that hands enabled to
\* _check_service_changes as it is given
service_running_flagged(P, name, service, enabled_, timeout, test, env) ==
    service_running_plan(P, enabled_, timeout, test, env,
                         _check_service_changes(P, name, service, TRUE, enabled_,
                                                QFail(env, 1)))

service_running(P, name, service, enabled_, timeout, test, env) ==
    service_running_plan(P, enabled_, timeout, test, env,
                         _check_service_changes(P, name, service, TRUE,
                                                IF enabled_ = RTrue THEN RTrue ELSE None,
                                                QFail(env, 1)))

\* lines 686-730: chk is what _check_service_changes gave
service_dead_plan(P, disabled_, timeout, test, env, chk) ==
    IF chk.err # "none" THEN NoServicesGuard(chk.err, test, chk.trace, P)
    ELSE IF chk.running_state = <<>> /\ chk.enable_state = <<>>
    THEN Out(Ret(RTrue, "All services are in the correct state", NoChanges), chk.trace, P)
    ELSE IF test
    THEN Out(Ret(None, "Would have stopped/disabled some services",
                 ListChanges("stopped", chk.running_state, "disabled", chk.enable_state)),
             chk.trace, P)
    ELSE service_done("Stopped/disabled some services", "stopped", "disabled",
            service_loop(P, set_order(env.order, chk.running_state \o chk.enable_state),
                         chk.running_state, chk.enable_state, disabled_, timeout,
                         env.svc, FALSE,
                         [post |-> P, trace |-> chk.trace, first |-> <<>>,
                          second |-> <<>>, errs |-> <<>>]))

service_dead(P, name, service, disabled_, timeout, test, env) ==
    service_dead_plan(P, disabled_, timeout, test, env,
                      _check_service_changes(P, name, service, FALSE,
                                             IF disabled_ = RTrue THEN RFalse ELSE None,
                                             QFail(env, 1)))

\* ------------------------------------------------------------------------
\* mod_watch
\* ------------------------------------------------------------------------
\* lines 832-843: one service of lst; t1 is what the wait gives
watch_one(P, typ, serv, reload, check_exp, timeout, e, t1) ==
    LET c1 == Call("snap.service_" \o typ, serv, e.call,
                   IF typ = "restart" THEN [reload |-> reload] ELSE <<>>)
        p1 == Poll("snap.service_running", serv,
                   IF t1.ok THEN check_exp ELSE ~check_exp, t1, timeout)
    IN  IF e.call = "raise"
        THEN [post |-> P, trace |-> <<c1>>, ok |-> FALSE, err |-> ErrCall]
        ELSE [post |-> SetRunning(P, serv, IF t1.ok THEN check_exp ELSE ~check_exp),
              trace |-> <<c1, p1>>, ok |-> t1.ok,
              err |-> "Tried to " \o typ \o " the snap service, but it is still not "
                      \o (IF check_exp THEN "running." ELSE "dead.")]

\* lines 831-843: for serv in lst, for one typ of "stop", "restart", "start";
\* acc is what the iterations so far did: [post, trace, done, errs]
RECURSIVE watch_loop(_, _, _, _, _, _, _, _)
RECURSIVE watch_next(_, _, _, _, _, _, _, _)
watch_loop(P, typ, lst, reload, check_exp, timeout, envs, acc) ==
    IF lst = <<>> THEN [acc EXCEPT !.post = P]
    ELSE LET serv == Head(lst)
             e == envs[serv]
             \* a restart without effect leaves the service running as it was
             stays == e.call = "noop" /\ P.services[serv].running = check_exp
         IN  watch_next(typ, lst, reload, check_exp, timeout, envs, acc,
                        watch_one(P, typ, serv, reload, check_exp, timeout, e,
                                  _timer(e.call = "ok" \/ stays,
                                         IF stays THEN 0 ELSE e.rdelay, timeout)))

watch_next(typ, lst, reload, check_exp, timeout, envs, acc, one) ==
    watch_loop(one.post, typ, Tail(lst), reload, check_exp, timeout, envs,
               [post |-> one.post,
                trace |-> acc.trace \o one.trace,
                done |-> IF one.ok THEN Append(acc.done, Head(lst)) ELSE acc.done,
                errs |-> IF one.ok THEN acc.errs ELSE (Head(lst) :> one.err) @@ acc.errs])

\* a variant of the function below without the handler of line 849
mod_watch_done_escaping(text, k1, k2, l1, l2) ==
    IF ~IsEmpty(l1.errs @@ l2.errs)
    THEN Crash("Encountered some errors", l2.trace, l2.post)
    ELSE Out(Ret(RTrue, text, ListChanges(k1, l1.done, k2, l2.done)), l2.trace, l2.post)

\* lines 844-859: k1 and k2 are the keys of the changes, l1 and l2 what the
\* loops over services[typ] did
mod_watch_done(text, k1, k2, l1, l2) ==
    IF ~IsEmpty(l1.errs @@ l2.errs)
    THEN Out(RetDetail(RFalse, "Encountered some errors", l1.errs @@ l2.errs,
                       ListChanges(k1, l1.done, k2, l2.done)), l2.trace, l2.post)
    ELSE Out(Ret(RTrue, text, ListChanges(k1, l1.done, k2, l2.done)), l2.trace, l2.post)

\* lines 825-843 for sfun = "service_running": restart is what the loop over
\* services["restart"] did, the loop over services["start"] follows
mod_watch_start(reload, timeout, env, dead_services, restart) ==
    mod_watch_done("(re)started some services",
                   IF reload THEN "reloaded" ELSE "restarted", "started", restart,
                   watch_loop(restart.post, "start", dead_services, reload, TRUE, timeout,
                              env.svc,
                              [post |-> restart.post, trace |-> restart.trace,
                               done |-> <<>>, errs |-> <<>>]))

\* a variant of the function below whose dry run reports "restarted" for a
\* reload as well
mod_watch_running_unrenamed(P, reload, timeout, test, env, chk1, chk2) ==
    IF chk2.err # "none"
    THEN Out(Ret(RFalse, IF chk2.err = "NoServices"
                         THEN "Did not find any service to manage"
                         ELSE ErrText(chk2.err), NoChanges),
             chk1.trace \o chk2.trace, P)
    ELSE IF test
    THEN Out(Ret(None, "Would have (re)started some services.",
                 ListChanges("restarted", chk1.running_state, "started",
                             chk2.running_state)),
             chk1.trace \o chk2.trace, P)
    ELSE mod_watch_start(reload, timeout, env, chk2.running_state,
                         watch_loop(P, "restart", chk1.running_state, reload, TRUE,
                                    timeout, env.svc,
                                    [post |-> P, trace |-> chk1.trace \o chk2.trace,
                                     done |-> <<>>, errs |-> <<>>]))

\* lines 799-823 for sfun = "service_running": chk2 is what the second
\* _check_service_changes gave
mod_watch_running(P, reload, timeout, test, env, chk1, chk2) ==
    IF chk2.err # "none"
    THEN Out(Ret(RFalse, IF chk2.err = "NoServices"
                         THEN "Did not find any service to manage"
                         ELSE ErrText(chk2.err), NoChanges),
             chk1.trace \o chk2.trace, P)
    ELSE IF test
    THEN Out(Ret(None, "Would have (re)started some services.",
                 ListChanges(IF reload THEN "reloaded" ELSE "restarted",
                             chk1.running_state, "started", chk2.running_state)),
             chk1.trace \o chk2.trace, P)
    ELSE mod_watch_start(reload, timeout, env, chk2.running_state,
                         watch_loop(P, "restart", chk1.running_state, reload, TRUE,
                                    timeout, env.svc,
                                    [post |-> P, trace |-> chk1.trace \o chk2.trace,
                                     done |-> <<>>, errs |-> <<>>]))

\* a variant of the function below without the early return of lines 789-791
mod_watch_dead_unchecked(P, reload, timeout, test, env, chk1) ==
    LET none == [post |-> P, trace |-> chk1.trace, done |-> <<>>, errs |-> <<>>]
    IN  IF test
        THEN Out(Ret(None, "Would have stopped some services.",
                     ("stopped" :> chk1.running_state)), chk1.trace, P)
        ELSE mod_watch_done("stopped some services", "stopped", "stopped", none,
                            watch_loop(P, "stop", chk1.running_state, reload, FALSE,
                                       timeout, env.svc, none))

\* lines 778-797 for sfun = "service_dead"
mod_watch_dead(P, reload, timeout, test, env, chk1) ==
    LET none == [post |-> P, trace |-> chk1.trace, done |-> <<>>, errs |-> <<>>]
    IN  IF chk1.running_state = <<>>
        THEN Out(Ret(RTrue, "All snap services are already stopped.", NoChanges),
                 chk1.trace, P)
        ELSE IF test
        THEN Out(Ret(None, "Would have stopped some services.",
                     ("stopped" :> chk1.running_state)), chk1.trace, P)
        ELSE mod_watch_done("stopped some services", "stopped", "stopped", none,
                            watch_loop(P, "stop", chk1.running_state, reload, FALSE,
                                       timeout, env.svc, none))

\* kwargs: service and timeout (<<>> when absent, <<t>> when given:
\* kwargs.get("timeout", 10))
mod_watch(P, name, sfun, reload, service, timeout_, test, env) ==
    LET timeout == IF timeout_ = <<>> THEN DefaultTimeout ELSE timeout_[1]
        chk1 == _check_service_changes(P, name, service, FALSE, None, QFail(env, 1))
    IN  IF sfun \notin {"service_dead", "service_running"}
        THEN Out(Ret(RFalse, "Unable to trigger watch for snap." \o sfun, NoChanges), <<>>, P)
        ELSE IF chk1.err # "none" THEN NoServicesGuard(chk1.err, test, chk1.trace, P)
        ELSE IF sfun = "service_dead"
        THEN mod_watch_dead(P, reload, timeout, test, env, chk1)
        ELSE mod_watch_running(P, reload, timeout, test, env, chk1,
                               _check_service_changes(P, name, service, TRUE, None,
                                                      QFail(env, 2)))

\* ------------------------------------------------------------------------
\* Provider: plugs, slots and connections.  The snap has the plug "p" and the
\* slot "q", core has the slot "p", the other snap has a plug "p" as well;
\* the slots of the peer snap are in P.slots.  All but the peer's are of
\* interface "if1".
\* ------------------------------------------------------------------------
CoreSnap == "core"
PeerSnap == "peer"
Interfaces == {"if1", "if2"}
PeerSlots == {"s1", "s2"}

Edge(psnap, plug, ssnap, slot) == [psnap |-> psnap, plug |-> plug, ssnap |-> ssnap, slot |-> slot]

\* snap.plugs(name): plug name -> interface
plugs(P, name) ==
    IF name \in {SnapName, OtherSnap} THEN ("p" :> "if1") ELSE <<>>

\* snap.slots(name): slot name -> interface
slots_(P, name) ==
    IF name = SnapName THEN ("q" :> "if1")
    ELSE IF name = CoreSnap THEN ("p" :> "if1")
    ELSE IF name = PeerSnap THEN P.slots
    ELSE <<>>

\* _filter_conn_points: the entity and interface filters of snap.plugs / snap.slots
Filter(points, entity, interface) ==
    [n \in {m \in DOMAIN points : /\ entity \in {None, m}
                                  /\ interface \in {None, points[m]}} |-> points[n]]

\* snap.connections(name): only connections involving this snap
connections(P, name) == {c \in P.established : c.psnap = name \/ c.ssnap = name}

\* "<snap>:<entity>" targets and str.split(":", maxsplit=1)
Join(snap, entity) == snap \o ":" \o entity
Endpoints == {[snap |-> SnapName, ent |-> "q"], [snap |-> CoreSnap, ent |-> "p"],
              [snap |-> CoreSnap, ent |-> "x"],
              [snap |-> SnapName, ent |-> "p"], [snap |-> OtherSnap, ent |-> "p"]}
             \cup {[snap |-> PeerSnap, ent |-> n] : n \in PeerSlots}
HasColon(target) == \E q \in Endpoints : Join(q.snap, q.ent) = target
split(target) == CHOOSE q \in Endpoints : Join(q.snap, q.ent) = target

\* the connection exists in snapd terms: both ends exist and share the interface
Connectable(P, c) ==
    /\ c.plug \in DOMAIN plugs(P, c.psnap)
    /\ c.slot \in DOMAIN slots_(P, c.ssnap)
    /\ plugs(P, c.psnap)[c.plug] = slots_(P, c.ssnap)[c.slot]

\* snap.connect(name, connector, target): "snap connect name:connector target"
connect(P, name, connector, target, outcome) ==
    LET t == split(target)
        c == Edge(name, connector, t.snap, t.ent)
    IN  IF outcome = "raise" \/ ~HasColon(target) \/ ~Connectable(P, c)
        THEN [post |-> P, raised |-> TRUE]
        ELSE IF outcome = "noop" THEN [post |-> P, raised |-> FALSE]
        ELSE [post |-> [P EXCEPT !.established = @ \cup {c}], raised |-> FALSE]

\* the connections "snap disconnect name:connector [target]" is about
Matching(P, name, connector, target) ==
    {c \in P.established :
        \/ /\ c.psnap = name /\ c.plug = connector
           /\ target = None \/ Join(c.ssnap, c.slot) = target
        \/ /\ c.ssnap = name /\ c.slot = connector
           /\ target = None \/ Join(c.psnap, c.plug) = target}

\* snap.disconnect(name, connector, target); "partial" leaves one of several
\* connections in place
disconnect(P, name, connector, target, outcome) ==
    LET m == Matching(P, name, connector, target)
        keep == IF outcome = "partial" /\ m # {} THEN {CHOOSE c \in m : TRUE} ELSE {}
    IN  IF outcome = "raise" \/ m = {} THEN [post |-> P, raised |-> TRUE]
        ELSE IF outcome = "noop" THEN [post |-> P, raised |-> FALSE]
        ELSE [post |-> [P EXCEPT !.established = (@ \ m) \cup keep], raised |-> FALSE]

\* ------------------------------------------------------------------------
\* connected
\* ------------------------------------------------------------------------
\* a variant of the loop below that looks for the target snap at the plug's end
is_established_plug_end(conns, connector, target_snap, target_slot) ==
    \E conn \in conns : /\ conn.plug = connector
                        /\ conn.psnap = target_snap
                        /\ conn.slot = target_slot

\* lines 91-96 / 108-113: the loop over curr["established"]
is_established(conns, connector, target_snap, target_slot) ==
    \E conn \in conns : /\ conn.plug = connector
                        /\ conn.ssnap = target_snap
                        /\ conn.slot = target_slot

\* a variant of the resolution below that refuses no slot at all only, and
\* takes one of several
resolve_target_any(P, name, connector, target, env) ==
    LET pl == plugs(P, name)
        e1 == Query("snap.plugs", name, pl)
        interface == pl[connector]
        possible_slots == Filter(slots_(P, target), None, interface)
        e2 == Query("snap.slots", target, possible_slots)
    IN  IF target = None
        THEN [err |-> "none", target |-> Join(CoreSnap, connector), trace |-> <<>>]
        ELSE IF HasColon(target)
        THEN [err |-> "none", target |-> target, trace |-> <<>>]
        ELSE IF QFail(env, 1) # "none"
        THEN [err |-> "plugs", kind |-> QFail(env, 1),
              trace |-> <<QueryErr("snap.plugs", name, QFail(env, 1))>>]
        ELSE IF connector \notin DOMAIN pl
        THEN [err |-> "noplug", trace |-> <<e1>>]
        ELSE IF QFail(env, 2) # "none"
        THEN [err |-> "slots", kind |-> QFail(env, 2),
              trace |-> <<e1, QueryErr("snap.slots", target, QFail(env, 2))>>]
        ELSE IF Cardinality(DOMAIN possible_slots) = 0
        THEN [err |-> "ambiguous", trace |-> <<e1, e2>>]
        ELSE [err |-> "none", trace |-> <<e1, e2>>,
              target |-> Join(target, CHOOSE n \in DOMAIN possible_slots : TRUE)]

\* lines 60-81: the target the plug is to be connected to.  err is "none",
\* a query error, "noplug" or "ambiguous"
resolve_target(P, name, connector, target, env) ==
    LET pl == plugs(P, name)
        e1 == Query("snap.plugs", name, pl)
        interface == pl[connector]
        possible_slots == Filter(slots_(P, target), None, interface)
        e2 == Query("snap.slots", target, possible_slots)
    IN  IF target = None
        THEN [err |-> "none", target |-> Join(CoreSnap, connector), trace |-> <<>>]
        ELSE IF HasColon(target)
        THEN [err |-> "none", target |-> target, trace |-> <<>>]
        ELSE IF QFail(env, 1) # "none"
        THEN [err |-> "plugs", kind |-> QFail(env, 1),
              trace |-> <<QueryErr("snap.plugs", name, QFail(env, 1))>>]
        ELSE IF connector \notin DOMAIN pl
        THEN [err |-> "noplug", trace |-> <<e1>>]
        ELSE IF QFail(env, 2) # "none"
        THEN [err |-> "slots", kind |-> QFail(env, 2),
              trace |-> <<e1, QueryErr("snap.slots", target, QFail(env, 2))>>]
        ELSE IF Cardinality(DOMAIN possible_slots) # 1
        THEN [err |-> "ambiguous", trace |-> <<e1, e2>>]
        ELSE [err |-> "none", trace |-> <<e1, e2>>,
              target |-> Join(target, CHOOSE n \in DOMAIN possible_slots : TRUE)]

\* a variant of the verification below that trusts the acknowledged call
connected_verify_trusting(P, name, connector, t, trace, env, c) ==
    LET full == Join(t.snap, t.ent)
        e4 == Call("snap.connect", Join(name, connector),
                   IF c.raised THEN "raise" ELSE env.act, [target |-> full])
        e5 == Query("snap.connections", name, connections(c.post, name))
    IN  IF c.raised
        THEN Out(Ret(RFalse, ErrCall, NoChanges), trace \o <<e4>>, P)
        ELSE Out(Ret(RTrue, "Connected plug to slot", ("connected" :> full)),
                 trace \o <<e4, e5>>, c.post)

\* lines 106-119: c is what snap.connect did; t is the resolved target
connected_verify(P, name, connector, t, trace, env, c) ==
    LET full == Join(t.snap, t.ent)
        e4 == Call("snap.connect", Join(name, connector),
                   IF c.raised THEN "raise" ELSE env.act, [target |-> full])
        curr_new == connections(c.post, name)
        e5 == Query("snap.connections", name, curr_new)
    IN  IF c.raised
        THEN Out(Ret(RFalse, ErrCall, NoChanges), trace \o <<e4>>, P)
        ELSE IF is_established(curr_new, connector, t.snap, t.ent)
        THEN Out(Ret(RTrue, "Connected plug to slot", ("connected" :> full)),
                 trace \o <<e4, e5>>, c.post)
        ELSE Out(Ret(RFalse, "Tried to connect the plug, but the connection is not reported",
                     NoChanges), trace \o <<e4, e5>>, c.post)

\* lines 82-105: res is the resolved target
connected_plan(P, name, connector, test, env, res) ==
    LET curr == connections(P, name)
        t == split(res.target)
        t3 == res.trace \o <<Query("snap.connections", name, curr)>>
    IN  IF res.err = "plugs"
        THEN Out(Ret(RFalse, ErrText(res.kind), NoChanges), res.trace, P)
        ELSE IF res.err = "noplug"
        THEN Out(Ret(RFalse, "The snap does not have a plug with this name", NoChanges),
                 res.trace, P)
        ELSE IF res.err = "slots" THEN NotInstalledGuard(res.kind, test, res.trace, P)
        ELSE IF res.err = "ambiguous"
        THEN Out(Ret(RFalse, "The target snap does not expose exactly one slot with this interface type",
                     NoChanges), res.trace, P)
        ELSE IF QFail(env, 3) # "none"
        THEN NotInstalledGuard(QFail(env, 3), test,
                 res.trace \o <<QueryErr("snap.connections", name, QFail(env, 3))>>, P)
        ELSE IF is_established(curr, connector, t.snap, t.ent)
        THEN Out(Ret(RTrue, "The connection is already established", NoChanges), t3, P)
        ELSE IF test
        THEN Out(Ret(None, "Would have connected plug to slot",
                     ("connected" :> Join(t.snap, t.ent))), t3, P)
        ELSE connected_verify(P, name, connector, t, t3, env,
                              connect(P, name, connector, res.target, env.act))

connected(P, name, connector, target, test, env) ==
    connected_plan(P, name, connector, test, env,
                   resolve_target(P, name, connector, target, env))

\* ------------------------------------------------------------------------
\* disconnected
\* ------------------------------------------------------------------------
\* a variant of the selection below that does not look at the target
other_ends_all(conns, this, name, connector, target) ==
    LET Mine(conn) == IF this = "plug" THEN conn.psnap = name /\ conn.plug = connector
                      ELSE conn.ssnap = name /\ conn.slot = connector
        Other(conn) == IF this = "plug" THEN [snap |-> conn.ssnap, ent |-> conn.slot]
                       ELSE [snap |-> conn.psnap, ent |-> conn.plug]
    IN  {Other(conn) : conn \in {c \in conns : Mine(c)}}

\* lines 166-171 / 184-189: the other ends of the connections of this
\* connector of the snap, restricted to the target if there is one
other_ends(conns, this, name, connector, target) ==
    LET Mine(conn) == IF this = "plug" THEN conn.psnap = name /\ conn.plug = connector
                      ELSE conn.ssnap = name /\ conn.slot = connector
        Other(conn) == IF this = "plug" THEN [snap |-> conn.ssnap, ent |-> conn.slot]
                       ELSE [snap |-> conn.psnap, ent |-> conn.plug]
    IN  {Other(conn) : conn \in {c \in conns :
            /\ Mine(c)
            /\ target = None \/ Other(c) = split(target)}}

Names(ends) == {Join(e.snap, e.ent) : e \in ends}

\* a variant of the function below that reports the whole plan as disconnected
disconnected_verify_trusting(P, name, connector, target, this, typ, disconnect_, trace, env, d) ==
    LET e4 == Call("snap.disconnect", Join(name, connector),
                   IF d.raised THEN "raise" ELSE env.act, [target |-> target])
        curr_new == connections(d.post, name)
        t5 == trace \o <<e4, Query("snap.connections", name, curr_new)>>
        still_present == other_ends(curr_new, this, name, connector, target)
        changes == ("disconnected" :> ((typ \o "s") :> Names(disconnect_)))
    IN  IF d.raised
        THEN Out(Ret(RFalse, ErrCall, NoChanges), trace \o <<e4>>, P)
        ELSE IF still_present # {}
        THEN Out(Ret(RFalse, "Tried to disconnect some " \o typ \o "s, but some connections remained",
                     changes), t5, d.post)
        ELSE Out(Ret(RTrue, "Disconnected some " \o typ \o "s", changes), t5, d.post)

\* lines 181-203: d is what snap.disconnect did
disconnected_verify(P, name, connector, target, this, typ, disconnect_, trace, env, d) ==
    LET e4 == Call("snap.disconnect", Join(name, connector),
                   IF d.raised THEN "raise" ELSE env.act, [target |-> target])
        curr_new == connections(d.post, name)
        t5 == trace \o <<e4, Query("snap.connections", name, curr_new)>>
        still_present == other_ends(curr_new, this, name, connector, target)
        actually_disconnected == disconnect_ \ still_present
        changes == IF actually_disconnected # {}
                   THEN ("disconnected" :> ((typ \o "s") :> Names(actually_disconnected)))
                   ELSE NoChanges
    IN  IF d.raised
        THEN Out(Ret(RFalse, ErrCall, NoChanges), trace \o <<e4>>, P)
        ELSE IF still_present # {}
        THEN Out(Ret(RFalse, "Tried to disconnect some " \o typ \o "s, but some connections remained",
                     changes), t5, d.post)
        ELSE Out(Ret(RTrue, "Disconnected some " \o typ \o "s", changes), t5, d.post)

disconnected(P, name, connector, target, test, env) ==
    LET isplug == ~IsEmpty(Filter(plugs(P, name), connector, None))
        isslot == ~IsEmpty(Filter(slots_(P, name), connector, None))
        e1 == Query("snap.plugs", name, isplug)
        e2 == Query("snap.slots", name, isslot)
        t2 == IF isplug THEN <<e1>> ELSE <<e1, e2>>
        this == IF isplug THEN "plug" ELSE "slot"
        typ == IF isplug THEN "slot" ELSE "plug"
        curr == connections(P, name)
        t3 == t2 \o <<Query("snap.connections", name, curr)>>
        disconnect_ == other_ends(curr, this, name, connector, target)
    IN  IF QFail(env, 1) # "none"
        THEN NotInstalledGuard(QFail(env, 1), test,
                               <<QueryErr("snap.plugs", name, QFail(env, 1))>>, P)
        ELSE IF ~isplug /\ QFail(env, 2) # "none"
        THEN NotInstalledGuard(QFail(env, 2), test,
                               <<e1, QueryErr("snap.slots", name, QFail(env, 2))>>, P)
        ELSE IF ~isplug /\ ~isslot
        THEN Out(Ret(RFalse, "The snap carries neither a slot nor a plug with this name",
                     NoChanges), t2, P)
        ELSE IF QFail(env, 3) # "none"
        THEN Out(Ret(RFalse, ErrText(QFail(env, 3)), NoChanges),
                 t2 \o <<QueryErr("snap.connections", name, QFail(env, 3))>>, P)
        ELSE IF target # None /\ ~HasColon(target)
        THEN Crash("ValueError: not enough values to unpack", t3, P)
        ELSE IF disconnect_ = {}
        THEN Out(Ret(RTrue, "The connection is already cut", NoChanges), t3, P)
        ELSE IF test
        THEN Out(Ret(None, "Would have disconnected some " \o typ \o "s",
                     ("disconnected" :> ((typ \o "s") :> Names(disconnect_)))), t3, P)
        ELSE disconnected_verify(P, name, connector, target, this, typ, disconnect_, t3,
                                 env, disconnect(P, name, connector, target, env.act))

\* ------------------------------------------------------------------------
\* The declarations that are applied: a state function and its arguments
\* ------------------------------------------------------------------------
Channels == {DefaultChannel, "latest/edge"}
Revisions == {"1", NewestRev}
RevArgs == {PyNone, Latest, PyInt(1), FileRev}
OptKeys == {"k1", "k2"}
OptVals == {"v1", "v2"}
AppSvcs == {n \in SvcNames : SnapOf(n) = SnapName}

InstalledDecls ==
    {[op |-> "installed", name |-> SnapName, channel |-> c, revision |-> r,
      classic |-> FALSE, held |-> h, assertions |-> None] :
        c \in {None} \cup Channels, r \in RevArgs, h \in TriState}
    \cup {[op |-> "installed", name |-> f, channel |-> None, revision |-> PyNone,
           classic |-> FALSE, held |-> None, assertions |-> a] :
        f \in FileNames, a \in {None, AssertFile}}

SnapDecls ==
    {[op |-> "removed", name |-> SnapName, purge |-> p] : p \in BOOLEAN}
    \cup {[op |-> o, name |-> SnapName] : o \in {"enabled", "disabled"}}

\* the options mapping: up to two distinct options, each set ("v1") or unset
OptPairs == {[k |-> k, v |-> v] : k \in OptKeys, v \in {None, "v1"}}
OptSeqs == {<<>>} \cup {<<a>> : a \in OptPairs}
           \cup {m \in OptPairs \X OptPairs : m[1].k # m[2].k}
OptionDecls ==
    {[op |-> "option_managed", name |-> SnapName, option |-> o, value |-> v, options |-> m] :
        o \in {None, "k1"}, v \in {NOT_SET, None, "v1"}, m \in OptSeqs}

ServiceDecls ==
    {[op |-> o, name |-> SnapName, service |-> s, flag |-> f, timeout |-> t] :
        o \in {"service_running", "service_dead"}, s \in {None} \cup ServiceArgs,
        f \in TriState, t \in Timeouts}

WatchDecls ==
    {[op |-> "mod_watch", name |-> SnapName, sfun |-> f, reload |-> r, service |-> s,
      kwtimeout |-> t] :
        f \in {"service_running", "service_dead", "installed"}, r \in BOOLEAN,
        s \in {None} \cup ServiceArgs, t \in {<<>>} \cup {<<n>> : n \in 0 .. MaxTimeout}}

ConnDecls ==
    {[op |-> "connected", name |-> SnapName, connector |-> c, target |-> t] :
        c \in {"p", "x"}, t \in {None, PeerSnap, Join(PeerSnap, "s1"), Join(SnapName, "q")}}
    \cup {[op |-> "disconnected", name |-> SnapName, connector |-> c, target |-> t] :
        c \in {"p", "q", "x"},
        t \in {None, PeerSnap, Join(PeerSnap, "s1"), Join(OtherSnap, "p")}}

Decls == InstalledDecls \cup SnapDecls \cup OptionDecls \cup ServiceDecls
         \cup WatchDecls \cup ConnDecls

\* ------------------------------------------------------------------------
\* The provider states a declaration is applied to.  The part of the provider
\* the declared function works on is arbitrary, the rest is as below.
\* ------------------------------------------------------------------------
SnapData == [channel : Channels, revision : Revisions, held : BOOLEAN, enabled : BOOLEAN]
SnapStates == {<<>>} \cup {(SnapName :> d) : d \in SnapData}
OneSnap == (SnapName :> [channel |-> DefaultChannel, revision |-> "1",
                         held |-> FALSE, enabled |-> TRUE])
OptStates == UNION {[S -> OptVals] : S \in SUBSET OptKeys}
SvcStatus == [running : BOOLEAN, enabled : BOOLEAN]
OtherSvcs == ("web.s1" :> [running |-> TRUE, enabled |-> TRUE])
SvcStates == {f @@ OtherSvcs : f \in UNION {[S -> SvcStatus] : S \in SUBSET AppSvcs}}
SlotStates == UNION {[S -> Interfaces] : S \in SUBSET PeerSlots}
AllEdges == {Edge(SnapName, "p", CoreSnap, "p"), Edge(OtherSnap, "p", SnapName, "q"),
             Edge(OtherSnap, "p", PeerSnap, "s1")}
            \cup {Edge(SnapName, "p", PeerSnap, n) : n \in PeerSlots}

InitSnaps ==
    /\ decl \in InstalledDecls \cup SnapDecls
    /\ snaps \in SnapStates
    /\ known \in (IF decl.op = "installed" /\ isfile(decl.name) THEN BOOLEAN ELSE {FALSE})
    /\ options = <<>> /\ services = OtherSvcs
    /\ slots = <<>> /\ established = {}

InitOptions ==
    /\ decl \in OptionDecls
    /\ snaps \in {<<>>, OneSnap}
    /\ options \in (IF snaps = <<>> THEN {<<>>} ELSE OptStates)
    /\ known = FALSE /\ services = OtherSvcs
    /\ slots = <<>> /\ established = {}

InitServices ==
    /\ decl \in ServiceDecls \cup WatchDecls
    /\ services \in SvcStates
    /\ snaps = OneSnap /\ known = FALSE /\ options = <<>>
    /\ slots = <<>> /\ established = {}

InitConnections ==
    /\ decl \in ConnDecls
    /\ slots \in SlotStates
    /\ established \in {E \in SUBSET AllEdges :
            \A c \in E : Connectable([slots |-> slots], c)}
    /\ snaps = OneSnap /\ known = FALSE /\ options = <<>> /\ services = OtherSvcs

NoCall == [test |-> FALSE]
NoPrev == [none |-> TRUE]

Init ==
    /\ ncalls = 0
    /\ last = NoCall
    /\ InitSnaps \/ InitOptions \/ InitServices \/ InitConnections

\* ------------------------------------------------------------------------
\* The environment of one application: which provider query fails and the
\* outcome of every mutating call.  The choices the application did not meet
\* are at their defaults, so that equal runs are one run.
\* ------------------------------------------------------------------------
QKinds == {"notfound", "other"}
Faults(n, kinds) == {[at |-> i, kind |-> k] : i \in 1 .. n, k \in kinds}

Called(trace, cs, subj) ==
    \E i \in DOMAIN trace : /\ trace[i].k = "call"
                            /\ trace[i].c \in cs
                            /\ subj \in {None, trace[i].s}
Polled(trace, c, subj) ==
    \E i \in DOMAIN trace : trace[i].k = "query" /\ trace[i].c = c /\ trace[i].s = subj
Calls(trace) == SelectSeq(trace, LAMBDA ev : ev.k = "call")
Hit(env, trace) ==
    env.qfail = NoFail \/ \E i \in DOMAIN trace : trace[i].err = env.qfail.kind

\* the environments an application may meet: only the first application of a
\* behaviour meets failures, and a dry run mutates nothing that could fail
EnvChoice(test, healthy, faulty, real) ==
    IF ncalls > 0 THEN {healthy}
    ELSE IF test THEN {healthy} \cup faulty
    ELSE {healthy} \cup faulty \cup real

ActHealthy == [qfail |-> NoFail, act |-> "ok"]
ActEnvs(test, n, kinds, outcomes) ==
    EnvChoice(test, ActHealthy,
              {[qfail |-> f, act |-> "ok"] : f \in Faults(n, kinds)},
              {[qfail |-> NoFail, act |-> a] : a \in outcomes})
ActUsed(env, trace) ==
    /\ Hit(env, trace)
    /\ env.act = "ok" \/ Calls(trace) # <<>>

InstalledHealthy == [qfail |-> NoFail, ack |-> "ok", install |-> "ok", hold |-> "ok"]
InstalledEnvs(test) ==
    EnvChoice(test, InstalledHealthy,
              {[InstalledHealthy EXCEPT !.qfail = f] : f \in Faults(1, {"other"})},
              [qfail : {NoFail} \cup Faults(1, {"other"}),
               ack : Outcomes, install : Outcomes, hold : Outcomes])
InstalledUsed(env, trace) ==
    /\ Hit(env, trace)
    /\ env.ack = "ok" \/ Called(trace, {"snap.ack"}, None)
    /\ env.install = "ok" \/ Called(trace, {"snap.install"}, None)
    /\ env.hold = "ok" \/ Called(trace, {"snap.hold", "snap.unhold"}, None)

OptionHealthy == [qfail |-> NoFail, acts |-> [k \in OptKeys |-> "ok"]]
OptionEnvs(test) ==
    EnvChoice(test, OptionHealthy,
              {[OptionHealthy EXCEPT !.qfail = f] : f \in Faults(1, {"other"})},
              [qfail : {NoFail}, acts : [OptKeys -> Outcomes]])
OptionUsed(env, trace) ==
    /\ Hit(env, trace)
    /\ \A k \in OptKeys :
          env.acts[k] = "ok" \/ Called(trace, {"snap.option_set", "snap.option_unset"}, k)

SvcHealthy == [call |-> "ok", rdelay |-> 0, edelay |-> 0]
SvcEnv == {[call |-> "ok", rdelay |-> r, edelay |-> e] : r \in Delays, e \in Delays}
          \cup {[SvcHealthy EXCEPT !.call = c] : c \in {"noop", "raise"}}
HashOrders == {o \in [1 .. Cardinality(AppSvcs) -> AppSvcs] : Range(o) = AppSvcs}
FirstOrder == CHOOSE o \in HashOrders : TRUE
ServiceHealthy == [qfail |-> NoFail, order |-> FirstOrder,
                   svc |-> [n \in AppSvcs |-> SvcHealthy]]
\* the services the declaration selects
Selected == {n \in DOMAIN services :
                /\ SnapOf(n) = decl.name
                /\ decl.service = None \/ n = decl.name \o "." \o decl.service}
ServiceEnvs(test, n) ==
    EnvChoice(test, ServiceHealthy,
              {[ServiceHealthy EXCEPT !.qfail = f] : f \in Faults(n, {"other"})},
              {e \in [qfail : {NoFail}, order : HashOrders, svc : [AppSvcs -> SvcEnv]] :
                  /\ \A m \in AppSvcs \ Selected : e.svc[m] = SvcHealthy
                  /\ e.order = FirstOrder \/ Cardinality(Selected) > 1})
ServiceUsed(env, trace) ==
    /\ Hit(env, trace)
    /\ env.order = FirstOrder \/ Len(Calls(trace)) > 1
    /\ \A n \in AppSvcs :
          /\ env.svc[n].call = "ok"
                \/ Called(trace, {"snap.service_start", "snap.service_stop",
                                  "snap.service_restart"}, n)
          /\ env.svc[n].rdelay = 0 \/ Polled(trace, "snap.service_running", n)
          /\ env.svc[n].edelay = 0 \/ Polled(trace, "snap.service_enabled", n)
WatchUsed(env, trace) == ServiceUsed(env, trace) /\ env.order = FirstOrder

\* ------------------------------------------------------------------------
\* The actions: one application of the declared state function
\* ------------------------------------------------------------------------
\* the choices of env that the application did not meet are at their defaults
EnvUsed(env, trace) ==
    CASE decl.op = "installed" -> InstalledUsed(env, trace)
      [] decl.op = "option_managed" -> OptionUsed(env, trace)
      [] decl.op \in {"service_running", "service_dead"} -> ServiceUsed(env, trace)
      [] decl.op = "mod_watch" -> WatchUsed(env, trace)
      [] OTHER -> ActUsed(env, trace)

Apply(test, env, out) ==
    /\ ncalls < MaxCalls
    /\ EnvUsed(env, out.trace) = TRUE
    /\ last' = [test |-> test, env |-> env, pre |-> Prov, ret |-> out.ret,
                trace |-> out.trace, crashed |-> out.crashed,
                prev |-> IF ncalls = 0 THEN NoPrev
                         ELSE [test |-> last.test, env |-> last.env, ret |-> last.ret]]
    /\ snaps' = out.post.snaps
    /\ known' = out.post.known
    /\ options' = out.post.options
    /\ services' = out.post.services
    /\ slots' = out.post.slots
    /\ established' = out.post.established
    /\ ncalls' = ncalls + 1
    /\ UNCHANGED decl

Installed ==
    /\ decl.op = "installed"
    /\ \E test \in BOOLEAN : \E env \in InstalledEnvs(test) :
          Apply(test, env, installed(Prov, decl.name, decl.channel, decl.revision, decl.classic,
                               decl.held, decl.assertions, test, env))

Removed ==
    /\ decl.op = "removed"
    /\ \E test \in BOOLEAN : \E env \in ActEnvs(test, 1, {"other"}, Outcomes) :
          Apply(test, env, removed(Prov, decl.name, decl.purge, test, env))

Enabled ==
    /\ decl.op = "enabled"
    /\ \E test \in BOOLEAN : \E env \in ActEnvs(test, 1, {"other"}, Outcomes) :
          Apply(test, env, enabled(Prov, decl.name, test, env))

Disabled ==
    /\ decl.op = "disabled"
    /\ \E test \in BOOLEAN : \E env \in ActEnvs(test, 1, {"other"}, Outcomes) :
          Apply(test, env, disabled(Prov, decl.name, test, env))

OptionManaged ==
    /\ decl.op = "option_managed"
    /\ \E test \in BOOLEAN : \E env \in OptionEnvs(test) :
          Apply(test, env, option_managed(Prov, decl.name, decl.option, decl.value,
                                    decl.options, test, env))

ServiceRunning ==
    /\ decl.op = "service_running"
    /\ \E test \in BOOLEAN : \E env \in ServiceEnvs(test, 1) :
          Apply(test, env, service_running(Prov, decl.name, decl.service, decl.flag,
                                     decl.timeout, test, env))

ServiceDead ==
    /\ decl.op = "service_dead"
    /\ \E test \in BOOLEAN : \E env \in ServiceEnvs(test, 1) :
          Apply(test, env, service_dead(Prov, decl.name, decl.service, decl.flag,
                                  decl.timeout, test, env))

ModWatch ==
    /\ decl.op = "mod_watch"
    /\ \E test \in BOOLEAN : \E env \in ServiceEnvs(test, 2) :
          Apply(test, env, mod_watch(Prov, decl.name, decl.sfun, decl.reload, decl.service,
                               decl.kwtimeout, test, env))

Connected ==
    /\ decl.op = "connected"
    /\ \E test \in BOOLEAN : \E env \in ActEnvs(test, 3, QKinds, Outcomes) :
          Apply(test, env, connected(Prov, decl.name, decl.connector, decl.target, test, env))

Disconnected ==
    /\ decl.op = "disconnected"
    /\ \E test \in BOOLEAN :
       \E env \in ActEnvs(test, 3, QKinds, Outcomes \cup {"partial"}) :
          Apply(test, env, disconnected(Prov, decl.name, decl.connector, decl.target, test, env))

Next ==
    \/ Installed
    \/ Removed
    \/ Enabled
    \/ Disabled
    \/ OptionManaged
    \/ ServiceRunning
    \/ ServiceDead
    \/ ModWatch
    \/ Connected
    \/ Disconnected

Spec == Init /\ [][Next]_vars

\* ------------------------------------------------------------------------
\* The desired state of the declaration, read off a provider state P
\* ------------------------------------------------------------------------
InstalledDesired(P) ==
    IF isfile(decl.name)
    THEN /\ decl.name = FileAbs
         /\ P.known
         /\ SnapName \in DOMAIN P.snaps
         /\ P.snaps[SnapName].revision = str(FileRev)
    ELSE /\ decl.name \in DOMAIN P.snaps
         /\ decl.channel = None \/ P.snaps[decl.name].channel = decl.channel
         /\ decl.held = None \/ P.snaps[decl.name].held = (decl.held = RTrue)
         /\ CASE decl.revision = PyNone -> TRUE
              [] decl.revision = Latest -> P.snaps[decl.name].revision = NewestRev
              [] OTHER -> P.snaps[decl.name].revision = str(decl.revision)

\* the options the declaration manages, and whether its arguments are usable
OptDesired == IF decl.options # <<>> THEN decl.options
              ELSE <<[k |-> decl.option, v |-> decl.value]>>
OptArgsValid == (decl.option # None /\ decl.value # NOT_SET) # (decl.options # <<>>)
OptAt(P, o) == IF o.v = None THEN o.k \notin DOMAIN P.options
               ELSE o.k \in DOMAIN P.options /\ P.options[o.k] = o.v
OptionDesired(P) ==
    /\ OptArgsValid
    /\ decl.name \in DOMAIN P.snaps
    /\ \A i \in DOMAIN OptDesired : OptAt(P, OptDesired[i])

\* the services of P the declaration selects
SelectedIn(P) == {n \in DOMAIN P.services :
                    /\ SnapOf(n) = decl.name
                    /\ decl.service = None \/ n = decl.name \o "." \o decl.service}
ServiceDesired(P, up) ==
    /\ SelectedIn(P) # {}
    /\ \A n \in SelectedIn(P) :
          /\ P.services[n].running = up
          /\ decl.flag = RTrue => P.services[n].enabled = up

\* the slots the target of connected stands for
ConnTargets(P) ==
    IF decl.target = None THEN {[snap |-> CoreSnap, ent |-> decl.connector]}
    ELSE IF HasColon(decl.target) THEN {split(decl.target)}
    ELSE {[snap |-> decl.target, ent |-> n] :
            n \in {m \in DOMAIN slots_(P, decl.target) :
                     /\ decl.connector \in DOMAIN plugs(P, decl.name)
                     /\ slots_(P, decl.target)[m] = plugs(P, decl.name)[decl.connector]}}
ConnectedDesired(P) ==
    /\ Cardinality(ConnTargets(P)) = 1
    /\ \A t \in ConnTargets(P) :
          Edge(decl.name, decl.connector, t.snap, t.ent) \in P.established

DisconnectedDesired(P) ==
    /\ decl.connector \in DOMAIN plugs(P, decl.name) \cup DOMAIN slots_(P, decl.name)
    /\ decl.target = None \/ HasColon(decl.target)
    /\ Matching(P, decl.name, decl.connector, decl.target) = {}

AtDesired(P) ==
    CASE decl.op = "installed" -> InstalledDesired(P)
      [] decl.op = "removed" -> decl.name \notin DOMAIN P.snaps
      [] decl.op = "enabled" -> decl.name \in DOMAIN P.snaps /\ P.snaps[decl.name].enabled
      [] decl.op = "disabled" -> decl.name \in DOMAIN P.snaps /\ ~P.snaps[decl.name].enabled
      [] decl.op = "option_managed" -> OptionDesired(P)
      [] decl.op = "service_running" -> ServiceDesired(P, TRUE)
      [] decl.op = "service_dead" -> ServiceDesired(P, FALSE)
      [] decl.op = "connected" -> ConnectedDesired(P)
      [] decl.op = "disconnected" -> DisconnectedDesired(P)
      [] OTHER -> FALSE

\* the provider functions that change the machine
Mutating == {"snap.install", "snap.hold", "snap.unhold", "snap.ack", "snap.remove",
             "snap.enable", "snap.disable", "snap.option_set", "snap.option_unset",
             "snap.service_start", "snap.service_stop", "snap.service_restart",
             "snap.connect", "snap.disconnect"}
NoMutation(trace) == \A i \in DOMAIN trace : trace[i].c \notin Mutating
Unchanged == ~last.crashed /\ last.ret.result = RTrue /\ IsEmpty(last.ret.changes)

\* ------------------------------------------------------------------------
\* C1: a declaration whose desired state the provider already shows returns
\* result True with empty changes and makes no mutating provider call, in
\* test mode and in real mode, at every application in a row.
\* ------------------------------------------------------------------------
C1_Idempotent ==
    (ncalls > 0 /\ decl.op # "mod_watch" /\ last.env.qfail = NoFail /\ AtDesired(last.pre))
        => Unchanged /\ NoMutation(last.trace) /\ Prov = last.pre

\* two applications in a row at the desired state, a dry run and then a real one
C1_Witness ==
    /\ ncalls = 2 /\ decl.op = "service_running" /\ decl.flag = RTrue
    /\ AtDesired(last.pre)
    /\ last.prev.test /\ last.prev.ret.result = RTrue
    /\ ~last.test /\ last.ret.result = RTrue

\* ------------------------------------------------------------------------
\* C2: with test mode on, no state function makes a mutating provider call
\* and the provider state after the call is the state before it.
\* ------------------------------------------------------------------------
C2_DryRunPure ==
    (ncalls > 0 /\ last.test) => NoMutation(last.trace) /\ Prov = last.pre

\* a dry run that found something to change
C2_Witness ==
    /\ ncalls > 0 /\ last.test
    /\ decl.op = "option_managed"
    /\ last.ret.result = None /\ ~IsEmpty(last.ret.changes)

\* ------------------------------------------------------------------------
\* A dry run followed by a real application: the machine was not touched in
\* between, no query of the dry run failed and the provider applied every
\* call of the real application
\* ------------------------------------------------------------------------
Applied(trace) == \A i \in DOMAIN trace : trace[i].k = "call" => trace[i].r = "ok"

DryThenReal ==
    /\ ncalls >= 2
    /\ last.prev.test /\ last.prev.env.qfail = NoFail
    /\ ~last.test /\ Applied(last.trace)

ServiceOps == {"service_running", "service_dead", "mod_watch"}

\* equal changes, the lists of services compared as sets
SameChanges(a, b) ==
    /\ DOMAIN a = DOMAIN b
    /\ \A k \in DOMAIN a : IF decl.op \in ServiceOps THEN Range(a[k]) = Range(b[k])
                            ELSE a[k] = b[k]

\* ------------------------------------------------------------------------
\* C3: the changes a dry run reports are the changes the real application
\* that follows it reports, for every state function and provider state.
\* ------------------------------------------------------------------------
C3_PredictionAccurate ==
    DryThenReal => SameChanges(last.prev.ret.changes, last.ret.changes)

\* ------------------------------------------------------------------------
\* C4: result None is returned in test mode only; where there is something
\* to change the dry run returns None with a comment that begins with
\* "Would have" and the real application that follows returns True.
\* ------------------------------------------------------------------------
WouldHave(text) == Len(text) >= 10 /\ SubSeq(text, 1, 10) = "Would have"

C4_PredictedVsConverged ==
    /\ (ncalls > 0 /\ last.ret.result = None) => last.test
    /\ (ncalls > 0 /\ last.test /\ ~IsEmpty(last.ret.changes))
          => last.ret.result = None /\ WouldHave(last.ret.text)
    /\ (DryThenReal /\ ~IsEmpty(last.prev.ret.changes)) => last.ret.result = RTrue

\* ------------------------------------------------------------------------
\* What the provider shows of the declared resource: the function the state
\* function observes it with, and the answer in provider state P
\* ------------------------------------------------------------------------
SnapOfDecl == IF decl.op = "installed" /\ isfile(decl.name) THEN SnapName ELSE decl.name
Observer ==
    CASE decl.op \in {"installed", "removed"} -> "snap.list"
      [] decl.op \in {"enabled", "disabled"} -> "snap.is_enabled"
      [] decl.op = "option_managed" -> "snap.options"
      [] OTHER -> "snap.connections"
View(P) ==
    CASE decl.op \in {"installed", "removed"} -> list_(P, SnapOfDecl)
      [] decl.op \in {"enabled", "disabled"} -> P.snaps[decl.name].enabled
      [] decl.op = "option_managed" -> P.options
      [] OTHER -> connections(P, decl.name)

\* the application ended with a query of the resource, made after every
\* mutating call, which showed the provider state P
ObservedLast(trace, P) ==
    \E j \in DOMAIN trace :
        /\ trace[j].k = "query" /\ trace[j].err = "none"
        /\ trace[j].c = Observer
        /\ trace[j].r = View(P)
        /\ \A i \in DOMAIN trace : trace[i].k = "call" => i < j

\* the polls of the services: what _timer evaluates, and for which lists of changes
PollFns == {"snap.service_running", "snap.service_enabled"}
KeysOf(c) == IF c = "snap.service_enabled" THEN {"enabled", "disabled"}
             ELSE {"started", "stopped", "restarted", "reloaded"}
PollOf(key) == IF key \in {"enabled", "disabled"} THEN "snap.service_enabled"
               ELSE "snap.service_running"
ExpectUp == \/ decl.op = "service_running"
            \/ decl.op = "mod_watch" /\ decl.sfun = "service_running"

\* service n was seen in the state waited for by a poll of function c made
\* after the provider call for n
SeenAfterCall(trace, n, c) ==
    \E i \in DOMAIN trace : \E j \in DOMAIN trace :
        /\ i < j
        /\ trace[i].k = "call" /\ trace[i].s = n
        /\ trace[j].k = "query" /\ trace[j].c = c /\ trace[j].s = n
        /\ trace[j].r = ExpectUp

\* ------------------------------------------------------------------------
\* C5: a real application that returns True with changes ended with a query
\* that showed no difference to the desired state; every service listed in
\* the changes of a service function was seen in the state waited for by a
\* poll made after its provider call.
\* ------------------------------------------------------------------------
C5_ConvergedSound ==
    /\ (ncalls > 0 /\ ~last.test /\ decl.op \notin ServiceOps
            /\ last.ret.result = RTrue /\ ~IsEmpty(last.ret.changes))
          => ObservedLast(last.trace, Prov) /\ AtDesired(Prov)
    /\ (ncalls > 0 /\ ~last.test /\ decl.op \in ServiceOps)
          => \A key \in DOMAIN last.ret.changes :
                \A n \in Range(last.ret.changes[key]) :
                    SeenAfterCall(last.trace, n, PollOf(key))

\* a connection that was made and seen afterwards
C5_Witness ==
    /\ ncalls > 0 /\ ~last.test /\ decl.op = "connected"
    /\ last.ret.result = RTrue /\ ~IsEmpty(last.ret.changes)
    /\ last.pre # Prov

\* ------------------------------------------------------------------------
\* C6: after a real application has returned True, the next application of
\* the same declaration returns True with empty changes and makes no
\* mutating provider call, revision "latest" after an upgrade included.
\* ------------------------------------------------------------------------
C6_NoRedundantChanges ==
    (ncalls >= 2 /\ decl.op # "mod_watch"
        /\ ~last.prev.test /\ last.prev.ret.result = RTrue)
        => Unchanged /\ NoMutation(last.trace) /\ Prov = last.pre

\* revision "latest": the upgrade was applied, the next application finds nothing
C6_Witness ==
    /\ ncalls = 2 /\ decl.op = "installed" /\ decl.revision = Latest
    /\ ~last.prev.test /\ last.prev.ret.result = RTrue
    /\ "revision" \in DOMAIN last.prev.ret.changes
    /\ ~last.test /\ Unchanged

\* ------------------------------------------------------------------------
\* C7: a real application whose provider calls were all acknowledged and
\* whose queries were all answered, but whose resource is not in the desired
\* state afterwards, returns False, its comment tells what remained, and its
\* changes hold nothing that remained.
\* ------------------------------------------------------------------------
VerifiedOps == {"installed", "removed", "enabled", "disabled", "connected",
                "disconnected", "option_managed"}
Acked(trace) ==
    /\ \E i \in DOMAIN trace : trace[i].k = "call"
    /\ \A i \in DOMAIN trace : trace[i].k = "call" => trace[i].r # "raise"
    /\ \A i \in DOMAIN trace : trace[i].err = "none"

\* the fields of the installed snap that are not as declared
InstalledResidual(P) ==
    IF isfile(decl.name)
    THEN {f \in {"revision"} : P.snaps[SnapName].revision # str(FileRev)}
    ELSE {f \in {"channel"} : decl.channel # None
                                /\ P.snaps[decl.name].channel # decl.channel}
         \cup {f \in {"held"} : decl.held # None
                                 /\ P.snaps[decl.name].held # (decl.held = RTrue)}
         \cup {f \in {"revision"} :
                 /\ decl.revision # PyNone
                 /\ P.snaps[decl.name].revision #
                        (IF decl.revision = Latest THEN NewestRev ELSE str(decl.revision))}
\* the options that are not as declared
OptionResidual(P) == {OptDesired[i].k : i \in {j \in DOMAIN OptDesired : ~OptAt(P, OptDesired[j])}}
\* the other ends the connector is still connected to
DisconnectResidual(P) ==
    {IF c.psnap = decl.name /\ c.plug = decl.connector
     THEN Join(c.ssnap, c.slot) ELSE Join(c.psnap, c.plug) :
        c \in Matching(P, decl.name, decl.connector, decl.target)}
Disconnected_(changes) ==
    IF "disconnected" \in DOMAIN changes
    THEN UNION {changes["disconnected"][t] : t \in DOMAIN changes["disconnected"]}
    ELSE {}

ResidualReported ==
    CASE decl.op = "installed" ->
            IF isfile(decl.name) /\ ~Prov.known
            THEN last.ret.text = "Imported assertions, but still could not find snap-revision"
            ELSE IF SnapOfDecl \notin DOMAIN Prov.snaps
            THEN last.ret.text = "Installed the snap, but it could not be found afterwards"
            ELSE /\ last.ret.text \in
                        {"Installed the snap, but there are still pending changes",
                         "Modified the snap, but there are still pending changes"}
                 /\ DOMAIN last.ret.detail = InstalledResidual(Prov)
      [] decl.op = "option_managed" ->
            /\ last.ret.text = "Modified some snap options, but there are still pending changes"
            /\ DOMAIN last.ret.detail = OptionResidual(Prov)
      [] decl.op = "removed" ->
            last.ret.text = "Tried to remove the snap, but it is still present"
      [] decl.op = "enabled" ->
            last.ret.text = "Tried to enable the snap, but it is still disabled"
      [] decl.op = "disabled" ->
            last.ret.text = "Tried to disable the snap, but it is still enabled"
      [] decl.op = "connected" ->
            last.ret.text = "Tried to connect the plug, but the connection is not reported"
      [] decl.op = "disconnected" ->
            last.ret.text \in
                {"Tried to disconnect some slots, but some connections remained",
                 "Tried to disconnect some plugs, but some connections remained"}

NothingStuckReported ==
    CASE decl.op = "installed" ->
            IF SnapOfDecl \notin DOMAIN Prov.snaps \/ (isfile(decl.name) /\ ~Prov.known)
            THEN IsEmpty(last.ret.changes)
            ELSE DOMAIN last.ret.changes \cap InstalledResidual(Prov) = {}
      [] decl.op = "option_managed" ->
            DOMAIN last.ret.changes \cap OptionResidual(Prov) = {}
      [] decl.op = "disconnected" ->
            Disconnected_(last.ret.changes) \cap DisconnectResidual(Prov) = {}
      [] OTHER -> IsEmpty(last.ret.changes)

C7_VerificationLoud ==
    (ncalls > 0 /\ ~last.test /\ decl.op \in VerifiedOps
        /\ Acked(last.trace) /\ ~AtDesired(Prov))
        => /\ ~last.crashed /\ last.ret.result = RFalse
           /\ ResidualReported
           /\ NothingStuckReported

\* the hold was acknowledged without effect while the channel was switched:
\* the channel is reported, the hold is not
C7_Witness ==
    /\ ncalls > 0 /\ ~last.test /\ decl.op = "installed"
    /\ Acked(last.trace) /\ ~AtDesired(Prov)
    /\ DOMAIN last.ret.detail = {"held"}
    /\ DOMAIN last.ret.changes = {"channel"}

\* ------------------------------------------------------------------------
\* The services an application failed for, read off its trace: the provider
\* call raised, or a wait ended with a poll that did not show the state
\* waited for
\* ------------------------------------------------------------------------
CallRaised(trace, n) ==
    \E i \in DOMAIN trace : trace[i].k = "call" /\ trace[i].s = n /\ trace[i].r = "raise"
WaitFailed(trace, n, c) ==
    \E i \in DOMAIN trace : /\ trace[i].k = "query" /\ trace[i].c = c
                            /\ trace[i].s = n /\ trace[i].r # ExpectUp
WaitPassed(trace, n, c) ==
    \E i \in DOMAIN trace : /\ trace[i].k = "query" /\ trace[i].c = c
                            /\ trace[i].s = n /\ trace[i].r = ExpectUp
SvcFailed(trace, n) ==
    CallRaised(trace, n) \/ \E c \in PollFns : WaitFailed(trace, n, c)
\* n is in a list of changes that belongs to the polls of function c
Listed(changes, n, c) ==
    \E key \in DOMAIN changes \cap KeysOf(c) : n \in Range(changes[key])

\* what the failure of a service always entails, and the report of those that did not fail
SvcFailureReported(n) ==
    /\ last.ret.result = RFalse
    /\ last.ret.text = "Encountered some errors"
    /\ n \in DOMAIN last.ret.detail
SvcSuccessReported ==
    \A n \in AppSvcs : \A c \in PollFns :
        (~SvcFailed(last.trace, n) /\ WaitPassed(last.trace, n, c))
            => Listed(last.ret.changes, n, c)

\* the statement as the specification has it: a failed service is in no list
C8_FailedInNoList ==
    (ncalls > 0 /\ ~last.test /\ decl.op \in ServiceOps)
        => /\ \A n \in AppSvcs : SvcFailed(last.trace, n)
                => /\ SvcFailureReported(n)
                   /\ \A c \in PollFns : ~Listed(last.ret.changes, n, c)
           /\ SvcSuccessReported

\* ------------------------------------------------------------------------
\* C8: in a real application of a service function, a service whose provider
\* call raised or one of whose waits timed out makes the result False with
\* "Encountered some errors" and a line for the service; the service is not
\* in the list of the condition whose wait failed nor of one not waited for
\* (a service that was seen started or stopped and then timed out on being
\* enabled or disabled stays in started / stopped); every service that did
\* not fail is in the list of every condition it was seen in.
\* ------------------------------------------------------------------------
C8_FailedNotInFailedList ==
    (ncalls > 0 /\ ~last.test /\ decl.op \in ServiceOps)
        => /\ \A n \in AppSvcs : SvcFailed(last.trace, n)
                => /\ SvcFailureReported(n)
                   /\ \A c \in PollFns :
                         Listed(last.ret.changes, n, c) => WaitPassed(last.trace, n, c)
           /\ SvcSuccessReported

\* one service was started and timed out on being enabled, the other one
\* was started and enabled
C8_Witness ==
    /\ ncalls > 0 /\ ~last.test /\ decl.op = "service_running"
    /\ \E n \in AppSvcs : \E m \in AppSvcs :
          /\ WaitFailed(last.trace, n, "snap.service_enabled")
          /\ Listed(last.ret.changes, n, "snap.service_running")
          /\ ~SvcFailed(last.trace, m)
          /\ Listed(last.ret.changes, m, "snap.service_enabled")

\* ------------------------------------------------------------------------
\* C9: in a real application of option_managed, if the provider call raises
\* for the options F, the result is False, the comment names exactly the
\* options of F with their error, changes holds exactly the entries of the
\* options that needed a change and are not in F, and an option that was at
\* its desired value is in neither.
\* ------------------------------------------------------------------------
OptRaised(trace) ==
    {trace[i].s : i \in {j \in DOMAIN trace : trace[j].k = "call" /\ trace[j].r = "raise"}}
OptValue(k) == (CHOOSE o \in Range(OptDesired) : o.k = k).v
OptOld(P, k) == IF k \in DOMAIN P.options THEN P.options[k] ELSE None

C9_OptionAttribution ==
    (ncalls > 0 /\ ~last.test /\ decl.op = "option_managed" /\ OptRaised(last.trace) # {})
        => /\ last.ret.result = RFalse
           /\ last.ret.text = "Encountered some errors"
           /\ DOMAIN last.ret.detail = OptRaised(last.trace)
           /\ DOMAIN last.ret.changes = OptionResidual(last.pre) \ OptRaised(last.trace)
           /\ \A k \in DOMAIN last.ret.changes :
                 /\ last.ret.changes[k].old = OptOld(last.pre, k)
                 /\ last.ret.changes[k].new = OptValue(k)
           /\ \A k \in Keys(OptDesired) \ OptionResidual(last.pre) :
                 k \notin DOMAIN last.ret.detail \cup DOMAIN last.ret.changes

\* of two options that needed a change one call raised and one was applied
C9_Witness ==
    /\ ncalls > 0 /\ ~last.test /\ decl.op = "option_managed"
    /\ Cardinality(OptRaised(last.trace)) = 1
    /\ Cardinality(DOMAIN last.ret.changes) = 1
    /\ last.pre # Prov

\* ------------------------------------------------------------------------
\* C10: connected with a bare snap name as target, the peer having no slot
\* or several slots of the plug's interface, returns False with a comment
\* on "does not expose exactly one slot" and empty changes and never calls
\* snap.connect, in test mode as in real mode.
\* ------------------------------------------------------------------------
Contains(text, sub) ==
    \E i \in 1 .. (Len(text) - Len(sub) + 1) : SubSeq(text, i, i + Len(sub) - 1) = sub
BareTarget == decl.target # None /\ ~HasColon(decl.target)

C10_AmbiguityRefused ==
    (ncalls > 0 /\ decl.op = "connected" /\ BareTarget /\ last.env.qfail = NoFail
        /\ decl.connector \in DOMAIN plugs(last.pre, decl.name)
        /\ Cardinality(ConnTargets(last.pre)) # 1)
        => /\ ~last.crashed /\ last.ret.result = RFalse
           /\ Contains(last.ret.text, "does not expose exactly one slot")
           /\ IsEmpty(last.ret.changes)
           /\ \A i \in DOMAIN last.trace : last.trace[i].c # "snap.connect"
           /\ Prov = last.pre

\* a dry run against a peer with two slots of the interface
C10_Witness ==
    /\ ncalls > 0 /\ decl.op = "connected" /\ BareTarget /\ last.test
    /\ Cardinality(ConnTargets(last.pre)) = 2
    /\ last.ret.result = RFalse

\* ------------------------------------------------------------------------
\* C11: connected resolves an omitted target to core:<connector>, uses a
\* full snap:slot target as given without looking up plugs or slots, and
\* resolves a bare snap name to the single slot of that snap with the
\* interface of the plug; the connection it looks for, makes and reports is
\* the one from name:connector to the resolved slot.
\* ------------------------------------------------------------------------
\* the application of connected resolved its target, to the slot Resolved
Resolves ==
    /\ ncalls > 0 /\ decl.op = "connected" /\ last.env.qfail = NoFail
    /\ Cardinality(ConnTargets(last.pre)) = 1
Resolved == CHOOSE t \in ConnTargets(last.pre) : TRUE
ResolvedEdge == Edge(decl.name, decl.connector, Resolved.snap, Resolved.ent)

C11_NoLookup ==
    (Resolves /\ ~BareTarget)
        => \A i \in DOMAIN last.trace : last.trace[i].c \notin {"snap.plugs", "snap.slots"}
C11_Made ==
    Resolves
        => /\ \A i \in DOMAIN last.trace : last.trace[i].c = "snap.connect"
                => /\ last.trace[i].s = Join(decl.name, decl.connector)
                   /\ last.trace[i].a.target = Join(Resolved.snap, Resolved.ent)
           /\ (~last.test /\ last.ret.result = RTrue /\ ~IsEmpty(last.ret.changes))
                => ResolvedEdge \in Prov.established
C11_Reported ==
    (Resolves /\ ~IsEmpty(last.ret.changes))
        => last.ret.changes = ("connected" :> Join(Resolved.snap, Resolved.ent))
C11_LookedFor ==
    Resolves
        => (last.ret.text = "The connection is already established"
                <=> ResolvedEdge \in last.pre.established)

C11_TargetResolution ==
    C11_NoLookup /\ C11_Made /\ C11_Reported /\ C11_LookedFor

\* ------------------------------------------------------------------------
\* C12: when the first state query of enabled, disabled or option_managed,
\* the slot-discovery or connections query of connected, or the plug lookup
\* of disconnected fails because the snap is not installed, the result is
\* None in a dry run and False otherwise, the comment contains the text of
\* the error and the changes are empty; any other error of the same query
\* gives False in both modes.
\* ------------------------------------------------------------------------
GuardedQueries ==
    CASE decl.op \in {"enabled", "disabled"} -> {"snap.is_enabled"}
      [] decl.op = "option_managed" -> {"snap.options"}
      [] decl.op = "connected" -> {"snap.slots", "snap.connections"}
      [] decl.op = "disconnected" -> {"snap.plugs"}
      [] OTHER -> {}
\* the application ended at a failed query of the guarded kind, before any call
FirstQueryFailed ==
    /\ ncalls > 0 /\ ~last.crashed /\ last.trace # <<>>
    /\ last.trace[Len(last.trace)].k = "query"
    /\ last.trace[Len(last.trace)].c \in GuardedQueries
    /\ last.trace[Len(last.trace)].err # "none"
    /\ \A i \in DOMAIN last.trace : last.trace[i].k = "query"
FailedKind == last.trace[Len(last.trace)].err
C12_NotFoundOnlyInDryRun ==
    FirstQueryFailed =>
        /\ IsEmpty(last.ret.changes)
        /\ Contains(last.ret.text, ErrText(FailedKind))
        /\ last.ret.result = IF FailedKind = "notfound" /\ last.test THEN None ELSE RFalse
C12_Witness ==
    /\ FirstQueryFailed /\ FailedKind = "notfound" /\ last.test
    /\ decl.op = "connected" /\ last.trace[Len(last.trace)].c = "snap.slots"
    /\ last.ret.result = None

\* ------------------------------------------------------------------------
\* C13: when service_running, service_dead or mod_watch list the services of
\* their selector (the whole snap, or one named service of it) and the
\* provider lists none of them, the result is False in real mode and None in
\* a dry run, whose comment ends in "if we weren't testing, this would be an
\* error"; the changes are empty and no service is started, stopped or
\* restarted.  Any other error of the listing gives False in both modes.
\* ------------------------------------------------------------------------
ListsServices ==
    /\ ncalls > 0 /\ decl.op \in ServiceOps
    /\ decl.op = "mod_watch" => decl.sfun \in {"service_running", "service_dead"}
NoneListed == ListsServices /\ last.env.qfail = NoFail /\ SelectedIn(last.pre) = {}
ListingFailed ==
    /\ ListsServices /\ last.env.qfail # NoFail
    /\ last.trace[Len(last.trace)].c = "snap.services"
    /\ last.trace[Len(last.trace)].err = last.env.qfail.kind
C13_Absent ==
    NoneListed =>
        /\ last.ret.result = IF last.test THEN None ELSE RFalse
        /\ last.test => last.ret.testing
        /\ IsEmpty(last.ret.changes)
        /\ NoMutation(last.trace)
C13_OtherError == ListingFailed => last.ret.result = RFalse /\ IsEmpty(last.ret.changes)
C13_MissingServiceDryRun == C13_Absent /\ C13_OtherError

\* ------------------------------------------------------------------------
\* C14: option_managed takes either one (option, value) pair, the value
\* given explicitly (None is a value), or an options mapping.  A call that
\* gives neither, or both, returns False with empty changes in both modes
\* and makes no provider query or call; a call that gives exactly one of
\* them queries the options of the snap.
\* ------------------------------------------------------------------------
PairGiven == decl.option # None /\ decl.value # NOT_SET
MappingGiven == decl.options # <<>>
C14_InputValidation ==
    (ncalls > 0 /\ decl.op = "option_managed") =>
        IF PairGiven = MappingGiven
        THEN /\ last.ret.result = RFalse
             /\ IsEmpty(last.ret.changes)
             /\ last.trace = <<>>
             /\ Prov = last.pre
        ELSE /\ last.trace # <<>>
             /\ last.trace[1].c = "snap.options"
C14_Witness ==
    /\ ncalls > 0 /\ decl.op = "option_managed" /\ last.test
    /\ decl.option = "k1" /\ decl.value = None /\ Len(decl.options) = 2
    /\ last.ret.result = RFalse /\ last.trace = <<>>

\* ------------------------------------------------------------------------
\* C15: in option_managed an option whose desired value is None and which
\* the snap does not have contributes no change and no snap.option_unset
\* call; if every desired option either has its desired value or is to be
\* unset and absent, the result is True with empty changes.
\* ------------------------------------------------------------------------
OptionsObserved ==
    /\ ncalls > 0 /\ decl.op = "option_managed" /\ OptArgsValid
    /\ last.trace # <<>> /\ last.trace[1].err = "none"
NothingToUnset == {o \in Range(OptDesired) : o.v = None /\ o.k \notin DOMAIN last.pre.options}
C15_UnsetAbsentIsNoop ==
    OptionsObserved =>
        /\ \A o \in NothingToUnset :
              /\ o.k \notin DOMAIN last.ret.changes
              /\ o.k \notin DOMAIN last.ret.detail
              /\ \A i \in DOMAIN last.trace :
                    ~(last.trace[i].c = "snap.option_unset" /\ last.trace[i].s = o.k)
        /\ (\A o \in Range(OptDesired) : OptAt(last.pre, o)) =>
              /\ last.ret.result = RTrue
              /\ IsEmpty(last.ret.changes)
              /\ Len(last.trace) = 1
C15_Witness ==
    /\ OptionsObserved /\ ~last.test
    /\ NothingToUnset # {} /\ Cardinality(Range(OptDesired)) = 2
    /\ \E i \in DOMAIN last.trace : last.trace[i].c = "snap.option_set"
    /\ last.ret.result = RTrue /\ Cardinality(DOMAIN last.ret.changes) = 1

\* ------------------------------------------------------------------------
\* C16: for every desired option the change set of option_managed has
\* {old: None, new: v, set} iff the snap does not have the option and v is
\* not None, {old: o, new: None, unset} iff v is None and the snap has the
\* option with value o, {old: o, new: v} without a flag iff the snap has it
\* with a value o other than v, and no entry iff the option is as desired;
\* the change set is the same for every order of the desired mapping.  A dry
\* run returns the change set, a real run the entries of the options it wrote.
\* ------------------------------------------------------------------------
Observed == last.pre.options
Differs == {o \in Range(OptDesired) : ~OptAt(last.pre, o)}
Classified(o) ==
    IF o.k \notin DOMAIN Observed THEN [old |-> None, new |-> o.v, flag |-> "set"]
    ELSE IF o.v = None THEN [old |-> Observed[o.k], new |-> None, flag |-> "unset"]
    ELSE [old |-> Observed[o.k], new |-> o.v, flag |-> "none"]
Reversed(seq) == [i \in DOMAIN seq |-> seq[Len(seq) + 1 - i]]
C16_Classification ==
    OptionsObserved =>
        /\ DOMAIN last.ret.changes \subseteq {o.k : o \in Differs}
        /\ \A o \in Differs : o.k \in DOMAIN last.ret.changes =>
                                 last.ret.changes[o.k] = Classified(o)
        /\ last.test => DOMAIN last.ret.changes = {o.k : o \in Differs}
        /\ option_check_changes(Reversed(OptDesired), Observed).changes
              = option_check_changes(OptDesired, Observed).changes
        /\ last.test => last.ret.changes = option_check_changes(Reversed(OptDesired), Observed).changes
C16_Witness ==
    /\ OptionsObserved /\ last.test /\ Len(OptDesired) = 2
    /\ \E o \in Differs : Classified(o).flag = "unset"
    /\ \E o \in Differs : Classified(o).flag = "none"
    /\ Cardinality(DOMAIN last.ret.changes) = 2

\* ------------------------------------------------------------------------
\* C17: a real installed call for a snap given by name calls snap.install,
\* once and with refresh=True iff the snap was present, iff the diff has a
\* key other than "held"; it calls snap.hold (held=True) or snap.unhold
\* (held=False) once iff the diff has "held" (and snap.install, if called,
\* did not raise); snap.install comes before snap.hold / snap.unhold; when no
\* call raised, one snap.list query after them verifies channel, revision and
\* held together; with an empty diff none of the three is called.
\* ------------------------------------------------------------------------
ByName == ncalls > 0 /\ decl.op = "installed" /\ ~isfile(decl.name) /\ last.env.qfail = NoFail
WasPresent == decl.name \in DOMAIN last.pre.snaps
DiffKeys == IF WasPresent THEN InstalledResidual(last.pre) ELSE {"installed"}
At(c) == {i \in DOMAIN last.trace : last.trace[i].c = c}
Raised == {i \in DOMAIN last.trace : last.trace[i].k = "call" /\ last.trace[i].r = "raise"}
HoldFn == IF decl.held = RTrue THEN "snap.hold" ELSE "snap.unhold"
OtherHoldFn == IF decl.held = RTrue THEN "snap.unhold" ELSE "snap.hold"
C17_Install ==
    /\ Cardinality(At("snap.install")) = IF DiffKeys \ {"held"} # {} THEN 1 ELSE 0
    /\ \A i \in At("snap.install") : last.trace[i].a.refresh = WasPresent
C17_Hold ==
    /\ Cardinality(At(HoldFn)) =
          IF "held" \in DiffKeys /\ At("snap.install") \cap Raised = {} THEN 1 ELSE 0
    /\ At(OtherHoldFn) = {}
    /\ \A i \in At("snap.install") : \A j \in At(HoldFn) : i < j
C17_Verify ==
    (DiffKeys # {} /\ Raised = {}) =>
        /\ last.trace[Len(last.trace)].c = "snap.list"
        /\ \A i \in DOMAIN last.trace :
              last.trace[i].k = "call" \/ i = Len(last.trace) \/ \A j \in DOMAIN last.trace : last.trace[j].k = "call" => i < j
        /\ last.ret.result = RTrue <=> /\ decl.name \in DOMAIN Prov.snaps
                                       /\ InstalledResidual(Prov) = {}
Tracked == last.pre.snaps[decl.name]
TargetRevision ==
    IF decl.revision = Latest
    THEN IF decl.name \in DOMAIN list_upgrades(last.pre)
         THEN PyStr(list_upgrades(last.pre)[decl.name].revision) ELSE PyNone
    ELSE decl.revision
ExpectedDiff ==
    IF ~WasPresent THEN ("installed" :> decl.name)
    ELSE (IF decl.channel # None /\ Tracked.channel # decl.channel
          THEN ("channel" :> [old |-> Tracked.channel, new |-> decl.channel]) ELSE <<>>)
      @@ (IF TargetRevision # PyNone /\ Tracked.revision # str(TargetRevision)
          THEN ("revision" :> [old |-> Tracked.revision, new |-> str(TargetRevision)])
          ELSE <<>>)
      @@ (IF decl.held # None /\ Tracked.held # (decl.held = RTrue)
          THEN ("held" :> [old |-> Tracked.held, new |-> (decl.held = RTrue)]) ELSE <<>>)
C18_InstallationDiff ==
    ByName =>
        /\ last.test => last.ret.changes = ExpectedDiff
        /\ DOMAIN last.ret.changes \subseteq DOMAIN ExpectedDiff
        /\ \A k \in DOMAIN last.ret.changes : last.ret.changes[k] = ExpectedDiff[k]
        /\ IsEmpty(ExpectedDiff) <=> last.ret.text = "The snap is already installed as specified"
C18_Witness ==
    /\ ByName /\ last.test /\ WasPresent
    /\ decl.revision = FileRev /\ Tracked.revision = "1"
    /\ DOMAIN last.ret.changes = {"channel", "revision", "held"}
    /\ last.ret.changes["revision"] = [old |-> "1", new |-> "2"]

\* ------------------------------------------------------------------------
\* C19: for a present snap and revision "latest", when snap.list_upgrades
\* does not list the snap the revision contributes no change and no error:
\* if the channel and the hold flag are as requested as well, the result is
\* True with empty changes and snap.install is not called, and a snap.install
\* made for the channel carries no revision.  When the snap is listed, the
\* target revision is that of the listed upgrade.
\* ------------------------------------------------------------------------
LatestOfPresent == ByName /\ WasPresent /\ decl.revision = Latest
Upgrades == last.trace[2].r
Listed_ == decl.name \in DOMAIN Upgrades
C19_Queried ==
    /\ Len(last.trace) >= 2 /\ last.trace[2].c = "snap.list_upgrades"
    /\ last.trace[2].err = "none" /\ Upgrades = list_upgrades(last.pre)
C19_NotListed ==
    ~Listed_ =>
        /\ "revision" \notin DOMAIN last.ret.changes \cup DOMAIN last.ret.detail
        /\ \A i \in At("snap.install") : last.trace[i].a.revision = PyNone
        /\ (DiffKeys \ {"revision"} = {}) =>
              /\ last.ret.result = RTrue /\ IsEmpty(last.ret.changes)
              /\ \A i \in DOMAIN last.trace : last.trace[i].k = "query"
C19_Listed ==
    Listed_ =>
        /\ last.test => /\ "revision" \in DOMAIN last.ret.changes
                        /\ last.ret.changes["revision"].new = Upgrades[decl.name].revision
        /\ ~last.test => /\ At("snap.install") # {}
                         /\ \A i \in At("snap.install") :
                               str(last.trace[i].a.revision) = Upgrades[decl.name].revision
C19_LatestWithoutUpgrade == LatestOfPresent => C19_Queried /\ C19_NotListed /\ C19_Listed
C19_Witness ==
    /\ LatestOfPresent /\ ~last.test /\ C19_Queried /\ ~Listed_
    /\ decl.channel = Tracked.channel /\ decl.held = RFalse /\ ~Tracked.held
    /\ last.ret.result = RTrue /\ IsEmpty(last.ret.changes) /\ At("snap.install") = {}

\* ------------------------------------------------------------------------
\* C20: the revision "latest" is resolved against snap.list_upgrades before
\* any snap.install: snap.install is never called with the revision "latest",
\* whether the snap is present or absent when installed is applied.
\* ------------------------------------------------------------------------
C20_LatestResolved ==
    (ncalls > 0 /\ decl.op = "installed") =>
        \A i \in At("snap.install") : last.trace[i].a.revision # Latest

\* ------------------------------------------------------------------------
\* C21: removed returns True with empty changes and never calls snap.remove
\* when the snap is not listed, in both modes; when the snap is listed, a
\* real run calls snap.remove exactly once, passing purge, and returns True
\* with changes {removed: name} only if a following snap.list query no longer
\* shows the snap, otherwise False with empty changes.
\* ------------------------------------------------------------------------
Removes == ncalls > 0 /\ decl.op = "removed" /\ last.env.qfail = NoFail
GoneAfterwards ==
    /\ Len(last.trace) = 3
    /\ last.trace[3].k = "query" /\ last.trace[3].c = "snap.list"
    /\ last.trace[3].err = "none" /\ IsEmpty(last.trace[3].r)
C21_Absent ==
    (Removes /\ ~WasPresent) =>
        /\ last.ret.result = RTrue /\ IsEmpty(last.ret.changes)
        /\ At("snap.remove") = {}
        /\ Prov = last.pre
C21_Present ==
    (Removes /\ WasPresent /\ ~last.test) =>
        /\ At("snap.remove") = {2}
        /\ last.trace[2].a.purge = decl.purge
        /\ IF GoneAfterwards /\ Raised = {}
           THEN last.ret.result = RTrue /\ last.ret.changes = ("removed" :> decl.name)
           ELSE last.ret.result = RFalse /\ IsEmpty(last.ret.changes)
C21_Removal == C21_Absent /\ C21_Present
C21_Witness ==
    /\ Removes /\ WasPresent /\ ~last.test /\ decl.purge
    /\ At("snap.remove") = {2} /\ Raised = {} /\ ~GoneAfterwards
    /\ last.ret.result = RFalse

\* ------------------------------------------------------------------------
\* C22: service_running plans "started" = the selected services that are not
\* running and, only when enabled is true, "enabled" = the selected services
\* that are not enabled; service_dead plans "stopped" = those running and,
\* only when disabled is true, "disabled" = those enabled.  A service may be
\* in one list, in both or in neither, and a service in neither receives no
\* provider call.  A dry run returns the plan, a real run reports and calls
\* services of the plan only.
\* ------------------------------------------------------------------------
SvcPlans ==
    /\ ncalls > 0 /\ decl.op \in {"service_running", "service_dead"}
    /\ last.env.qfail = NoFail /\ SelectedIn(last.pre) # {}
RunAxis == {n \in SelectedIn(last.pre) : last.pre.services[n].running # ExpectUp}
EnableAxis == IF decl.flag = RTrue
              THEN {n \in SelectedIn(last.pre) : last.pre.services[n].enabled # ExpectUp}
              ELSE {}
RunKey == IF ExpectUp THEN "started" ELSE "stopped"
EnableKey == IF ExpectUp THEN "enabled" ELSE "disabled"
ListOf(changes, key) == IF key \in DOMAIN changes THEN Range(changes[key]) ELSE {}
NoRepeats(changes) == \A key \in DOMAIN changes :
                         Cardinality(Range(changes[key])) = Len(changes[key])
CalledFor == {last.trace[i].s : i \in {j \in DOMAIN last.trace : last.trace[j].k = "call"}}
C22_TwoAxes ==
    SvcPlans =>
        /\ DOMAIN last.ret.changes \subseteq {RunKey, EnableKey}
        /\ NoRepeats(last.ret.changes)
        /\ ListOf(last.ret.changes, RunKey) \subseteq RunAxis
        /\ ListOf(last.ret.changes, EnableKey) \subseteq EnableAxis
        /\ last.test => /\ ListOf(last.ret.changes, RunKey) = RunAxis
                        /\ ListOf(last.ret.changes, EnableKey) = EnableAxis
                        /\ CalledFor = {}
        /\ ~last.test => CalledFor = RunAxis \cup EnableAxis
        /\ (RunAxis \cup EnableAxis = {}) => last.ret.result = RTrue
C22_Witness ==
    /\ SvcPlans /\ last.test /\ decl.op = "service_running" /\ decl.flag = RTrue
    /\ Cardinality(SelectedIn(last.pre)) = 2
    /\ RunAxis \cap EnableAxis # {} /\ RunAxis \cup EnableAxis # SelectedIn(last.pre)
    /\ ListOf(last.ret.changes, "started") = RunAxis
    /\ ListOf(last.ret.changes, "enabled") = EnableAxis

\* ------------------------------------------------------------------------
\* C23: in a real service_running, service_dead or mod_watch, a service that
\* after its provider call does not report the running (or enabled) value
\* waited for within the timeout (10 seconds by default, polled every 0.25
\* seconds) makes the result False, the comment names the service with the
\* condition ("but it is still ..."), and the service is not in the changes
\* of the condition that timed out.
\* ------------------------------------------------------------------------
CallerTimeout ==
    IF decl.op = "mod_watch"
    THEN IF decl.kwtimeout = <<>> THEN DefaultTimeout ELSE decl.kwtimeout[1]
    ELSE decl.timeout
Waits == {i \in DOMAIN last.trace : last.trace[i].k = "query" /\ last.trace[i].c \in PollFns}
\* the wait ended without the value, or saw it only after the timeout
NotInTime(i) ==
    \/ last.trace[i].r # ExpectUp
    \/ last.trace[i].a.polls - 1 > CallerTimeout * PollsPerSecond
TimeoutReported(i) ==
    /\ last.ret.result = RFalse
    /\ last.trace[i].s \in DOMAIN last.ret.detail
    /\ Contains(last.ret.detail[last.trace[i].s], "but it is still")
    /\ ~Listed(last.ret.changes, last.trace[i].s, last.trace[i].c)
C23_TimeoutFatal ==
    (ncalls > 0 /\ ~last.test /\ decl.op \in ServiceOps) =>
        \A i \in Waits : NotInTime(i) => TimeoutReported(i)

\* ------------------------------------------------------------------------
\* C24: disconnected finds out whether the connector is a plug or a slot of
\* the snap; its plan is the set of established connections whose own side
\* is name:connector and, if a target snap:entity is given, whose other side
\* is the target; without a target all peers of the plug or slot are in it.  An
\* empty set gives True with empty changes and no snap.disconnect call;
\* otherwise changes["disconnected"] lists the peers of the set under "slots"
\* (the connector is a plug) or "plugs" (it is a slot): all of them in a dry
\* run and in a real run that returns True, no others in any run.
\* ------------------------------------------------------------------------
Disconnects ==
    /\ ncalls > 0 /\ decl.op = "disconnected" /\ last.env.qfail = NoFail /\ ~BareTarget
    /\ decl.connector \in DOMAIN plugs(last.pre, decl.name) \cup DOMAIN slots_(last.pre, decl.name)
FromPlug == decl.connector \in DOMAIN plugs(last.pre, decl.name)
Own(c) == IF FromPlug THEN Join(c.psnap, c.plug) ELSE Join(c.ssnap, c.slot)
Peer(c) == IF FromPlug THEN Join(c.ssnap, c.slot) ELSE Join(c.psnap, c.plug)
PlannedEdges == {c \in last.pre.established :
                    /\ Own(c) = Join(decl.name, decl.connector)
                    /\ decl.target = None \/ Peer(c) = decl.target}
PlannedPeers == {Peer(c) : c \in PlannedEdges}
PeersKey == IF FromPlug THEN "slots" ELSE "plugs"
C24_DisconnectionPlan ==
    Disconnects =>
        /\ last.trace[1].c = "snap.plugs"
        /\ ~FromPlug => last.trace[2].c = "snap.slots"
        /\ (PlannedEdges = {}) =>
              /\ last.ret.result = RTrue /\ IsEmpty(last.ret.changes)
              /\ At("snap.disconnect") = {}
        /\ (PlannedEdges # {}) =>
              /\ last.ret.result # RTrue \/ ~IsEmpty(last.ret.changes)
              /\ ~IsEmpty(last.ret.changes) =>
                    /\ DOMAIN last.ret.changes = {"disconnected"}
                    /\ DOMAIN last.ret.changes["disconnected"] = {PeersKey}
                    /\ last.ret.changes["disconnected"][PeersKey] \subseteq PlannedPeers
              /\ (last.test \/ last.ret.result = RTrue) =>
                    last.ret.changes = ("disconnected" :> (PeersKey :> PlannedPeers))
              /\ last.test => At("snap.disconnect") = {}
              /\ ~last.test => Cardinality(At("snap.disconnect")) = 1
C24_Witness ==
    /\ Disconnects /\ last.test /\ FromPlug /\ decl.target = None
    /\ Cardinality(PlannedEdges) = 3
    /\ last.ret.changes = ("disconnected" :> ("slots" :> PlannedPeers))

\* ------------------------------------------------------------------------
\* C25: mod_watch with sfun = "service_running" calls snap.service_restart
\* for the selected services that are running and snap.service_start for
\* those that are not, waits for each to report running, and reports them
\* under "restarted" and "started"; with reload the restart is called with
\* reload and "restarted" is reported as "reloaded" instead, in a dry run and
\* in a real run; empty lists are left out of the changes.
\* ------------------------------------------------------------------------
Watches(sfun) ==
    /\ ncalls > 0 /\ decl.op = "mod_watch" /\ decl.sfun = sfun
    /\ last.env.qfail = NoFail /\ SelectedIn(last.pre) # {}
WereRunning == {n \in SelectedIn(last.pre) : last.pre.services[n].running}
WereDead == SelectedIn(last.pre) \ WereRunning
RestartKey == IF decl.reload THEN "reloaded" ELSE "restarted"
OncePer(c, S) ==
    /\ {last.trace[i].s : i \in At(c)} = S
    /\ Cardinality(At(c)) = Cardinality(S)
WaitedFor(n) == SeenAfterCall(last.trace, n, "snap.service_running")
C25_Report ==
    /\ DOMAIN last.ret.changes \subseteq {RestartKey, "started"}
    /\ NoRepeats(last.ret.changes)
    /\ \A key \in DOMAIN last.ret.changes : last.ret.changes[key] # <<>>
    /\ ListOf(last.ret.changes, RestartKey) \subseteq WereRunning
    /\ ListOf(last.ret.changes, "started") \subseteq WereDead
    /\ (last.test \/ last.ret.result = RTrue) =>
          /\ ListOf(last.ret.changes, RestartKey) = WereRunning
          /\ ListOf(last.ret.changes, "started") = WereDead
C25_Calls ==
    IF last.test THEN NoMutation(last.trace) /\ CalledFor = {}
    ELSE /\ OncePer("snap.service_restart", WereRunning)
         /\ OncePer("snap.service_start", WereDead)
         /\ At("snap.service_stop") = {}
         /\ \A i \in At("snap.service_restart") : last.trace[i].a.reload = decl.reload
         /\ \A n \in ListOf(last.ret.changes, RestartKey) \cup ListOf(last.ret.changes, "started") :
               WaitedFor(n)
C25_WatchRunning == Watches("service_running") => C25_Report /\ C25_Calls
C25_Witness ==
    /\ Watches("service_running") /\ ~last.test /\ decl.reload
    /\ WereRunning # {} /\ WereDead # {}
    /\ last.ret.result = RTrue
    /\ DOMAIN last.ret.changes = {"reloaded", "started"}

\* ------------------------------------------------------------------------
\* C26: mod_watch with sfun = "service_dead" returns True with empty changes
\* and calls nothing when none of the selected services is running;
\* otherwise it calls snap.service_stop for exactly the running ones, waits
\* for each to report not running, and reports them under "stopped".  For
\* any other sfun than service_running and service_dead it returns False
\* without a query or a call.
\* ------------------------------------------------------------------------
StoppedFor(n) ==
    \E i \in At("snap.service_stop") :
       /\ last.trace[i].s = n
       /\ \E j \in At("snap.service_running") :
             j > i /\ last.trace[j].s = n /\ last.trace[j].r = FALSE
C26_NoneRunning ==
    /\ last.ret.result = RTrue
    /\ last.ret.changes = NoChanges
    /\ NoMutation(last.trace) /\ CalledFor = {}
C26_SomeRunning ==
    /\ DOMAIN last.ret.changes \subseteq {"stopped"}
    /\ NoRepeats(last.ret.changes)
    /\ \A key \in DOMAIN last.ret.changes : last.ret.changes[key] # <<>>
    /\ ListOf(last.ret.changes, "stopped") \subseteq WereRunning
    /\ (last.test \/ last.ret.result = RTrue) =>
          ListOf(last.ret.changes, "stopped") = WereRunning
    /\ IF last.test THEN NoMutation(last.trace) /\ CalledFor = {}
       ELSE /\ OncePer("snap.service_stop", WereRunning)
            /\ At("snap.service_start") = {} /\ At("snap.service_restart") = {}
            /\ \A n \in ListOf(last.ret.changes, "stopped") : StoppedFor(n)
C26_OtherFunction ==
    (ncalls > 0 /\ decl.op = "mod_watch"
        /\ decl.sfun \notin {"service_running", "service_dead"}) =>
       /\ last.ret.result = RFalse
       /\ last.ret.changes = NoChanges
       /\ last.trace = <<>>
C26_WatchDead ==
    /\ Watches("service_dead") =>
          IF WereRunning = {} THEN C26_NoneRunning ELSE C26_SomeRunning
    /\ C26_OtherFunction
C26_Witness ==
    /\ Watches("service_dead") /\ ~last.test
    /\ Cardinality(WereRunning) = 2
    /\ last.ret.result = RTrue
    /\ ListOf(last.ret.changes, "stopped") = WereRunning

\* ------------------------------------------------------------------------
\* C27: installed with a name ending in ".snap": a relative path gives False
\* in both modes; a path that does not exist gives None in a dry run and
\* False in a real run; without a known snap-revision assertion and without
\* an assertions file the result is None in a dry run and False ("Missing
\* assertions") in a real run; with an assertions file in a real run
\* snap.ack is called exactly once and snap.known is queried again after it,
\* and the result is False ("still could not find") when the assertion is
\* still unknown; snap.install is never called while no snap-revision
\* assertion of the file is known.
\* ------------------------------------------------------------------------
ByFile == ncalls > 0 /\ decl.op = "installed" /\ isfile(decl.name)
Unsigned == ByFile /\ is_absolute(decl.name) /\ exists(decl.name) /\ ~last.pre.known
KnownAfter(i) ==
    \E j \in At("snap.known") : j > i /\ \A m \in At("snap.known") : m <= j
StillUnknown ==
    \E j \in At("snap.known") :
       /\ \E i \in At("snap.ack") : i < j
       /\ last.trace[j].r = <<>>
C27_Path ==
    /\ (ByFile /\ ~is_absolute(decl.name)) => last.ret.result = RFalse
    /\ (ByFile /\ is_absolute(decl.name) /\ ~exists(decl.name)) =>
          last.ret.result = (IF last.test THEN None ELSE RFalse)
C27_Missing ==
    (Unsigned /\ decl.assertions = None) =>
       IF last.test THEN last.ret.result = None
       ELSE /\ last.ret.result = RFalse
            /\ Contains(last.ret.text, "Missing assertions")
C27_NeverUnsigned ==
    ByFile =>
       /\ \A i \in At("snap.install") :
             \E j \in At("snap.known") : j < i /\ last.trace[j].r # <<>>
       /\ (At("snap.install") # {}) => Prov.known
C27_StillUnknown ==
    StillUnknown =>
       /\ last.ret.result = RFalse
       /\ Contains(last.ret.text, "still could not find")
\* the claim as it is worded: snap.known is queried again after every snap.ack
C27_FilePreconditions ==
    /\ C27_Path /\ C27_Missing /\ C27_NeverUnsigned
    /\ (Unsigned /\ decl.assertions # None /\ ~last.test) =>
          /\ Cardinality(At("snap.ack")) = 1
          /\ \A i \in At("snap.ack") : KnownAfter(i)
          /\ C27_StillUnknown
\* C27 as the code has it: snap.known is queried again unless snap.ack
\* raised, which ends the call with result False and without another query or
\* call.
C27_FilePreconditionsUnlessAckRaised ==
    /\ C27_Path /\ C27_Missing /\ C27_NeverUnsigned
    /\ (Unsigned /\ decl.assertions # None /\ ~last.test) =>
          /\ Cardinality(At("snap.ack")) = 1
          /\ \A i \in At("snap.ack") :
                IF i \in Raised
                THEN last.ret.result = RFalse /\ i = Len(last.trace)
                ELSE KnownAfter(i)
          /\ C27_StillUnknown
    /\ (ByFile /\ ~(Unsigned /\ decl.assertions # None /\ ~last.test)) =>
          At("snap.ack") = {}
C27_Witness ==
    /\ Unsigned /\ decl.assertions # None /\ ~last.test
    /\ StillUnknown
    /\ last.ret.result = RFalse

\* ------------------------------------------------------------------------
\* C28: in the real loops of service_running, service_dead, mod_watch and
\* option_managed every service or option that needs a change has its
\* provider call made exactly once, whether or not the call or a wait of
\* another one failed, and no call is repeated for one that failed.
\* ------------------------------------------------------------------------
CallsFor(n) == {i \in DOMAIN last.trace : last.trace[i].k = "call" /\ last.trace[i].s = n}
OnceEach(S) ==
    /\ CalledFor = S
    /\ \A n \in S : Cardinality(CallsFor(n)) = 1
PollFailed(i) ==
    /\ last.trace[i].c \in PollFns
    /\ last.trace[i].r # (IF decl.op = "service_dead" \/ (decl.op = "mod_watch" /\ decl.sfun = "service_dead")
                          THEN FALSE ELSE TRUE)
FanOutNeeds ==
    IF decl.op = "option_managed" THEN {o.k : o \in Differs}
    ELSE IF decl.op = "mod_watch"
    THEN (IF decl.sfun = "service_dead" THEN WereRunning ELSE SelectedIn(last.pre))
    ELSE RunAxis \cup EnableAxis
FansOut ==
    /\ ncalls > 0 /\ ~last.test
    /\ \/ SvcPlans
       \/ Watches("service_running") \/ Watches("service_dead")
       \/ OptionsObserved
C28_FanOut == FansOut => OnceEach(FanOutNeeds)
C28_Witness ==
    /\ FansOut /\ decl.op = "option_managed"
    /\ Cardinality(FanOutNeeds) >= 2
    /\ \E i \in Raised : \E j \in DOMAIN last.trace :
          j > i /\ last.trace[j].k = "call" /\ last.trace[j].s # last.trace[i].s
    /\ OnceEach(FanOutNeeds)

\* ------------------------------------------------------------------------
\* C29: for fixed arguments and a fixed provider listing, service_running
\* and service_dead make their per-service provider calls in the same
\* sequence on every run: a run from the same provider state, with the same
\* arguments and the same provider behaviour, makes the calls in the order
\* of this run whatever order the iteration of set(start + enable) takes.
\* ------------------------------------------------------------------------
CallOrder(trace) == [i \in DOMAIN Calls(trace) |-> Calls(trace)[i].s]
Rerun(order) ==
    IF decl.op = "service_running"
    THEN service_running(last.pre, decl.name, decl.service, decl.flag, decl.timeout,
                         last.test, [last.env EXCEPT !.order = order])
    ELSE service_dead(last.pre, decl.name, decl.service, decl.flag, decl.timeout,
                      last.test, [last.env EXCEPT !.order = order])
C29_SameOrderEveryRun ==
    (SvcPlans /\ ~last.test) =>
        \A o \in HashOrders : CallOrder(Rerun(o).trace) = CallOrder(last.trace)

\* ------------------------------------------------------------------------
\* C30: within one call of any operation a mutating provider call comes only
\* after a state query of that call that showed something to change; every
\* poll or verifying query comes after the mutating call it verifies; no
\* mutating call follows the verification of what it changed; a call that
\* found nothing to change or that returns True without changes, and a dry
\* run, make no mutating call; and no call undoes another one of the same
\* application, whatever the outcome.
\* ------------------------------------------------------------------------
MutIdx == {i \in DOMAIN last.trace : last.trace[i].c \in Mutating}
StateQueries == {j \in DOMAIN last.trace :
                    /\ last.trace[j].k = "query" /\ last.trace[j].err = "none"
                    /\ last.trace[j].c \notin PollFns}
\* what the operation is to change, read off the provider state it started from
Diffed ==
    IF decl.op = "mod_watch"
    THEN IF decl.sfun = "service_dead" THEN WereRunning # {} ELSE SelectedIn(last.pre) # {}
    ELSE ~AtDesired(last.pre)
\* the query that verifies a call of c
VerifierOf(c) ==
    CASE c = "snap.ack" -> {"snap.known"}
      [] c \in {"snap.install", "snap.hold", "snap.unhold", "snap.remove"} -> {"snap.list"}
      [] c \in {"snap.enable", "snap.disable"} -> {"snap.is_enabled"}
      [] c \in {"snap.option_set", "snap.option_unset"} -> {"snap.options"}
      [] c \in {"snap.connect", "snap.disconnect"} -> {"snap.connections"}
      [] OTHER -> PollFns
PerItem(c) == VerifierOf(c) = PollFns
Verifies(j, i) ==
    /\ j > i
    /\ last.trace[j].k = "query"
    /\ last.trace[j].c \in VerifierOf(last.trace[i].c)
    /\ PerItem(last.trace[i].c) => last.trace[j].s = last.trace[i].s
Undoes(c, d) ==
    \/ {c, d} \in {{"snap.enable", "snap.disable"}, {"snap.hold", "snap.unhold"},
                   {"snap.install", "snap.remove"}, {"snap.connect", "snap.disconnect"}}
    \/ {c, d} \in {{"snap.option_set", "snap.option_unset"},
                   {"snap.service_start", "snap.service_stop"},
                   {"snap.service_restart", "snap.service_stop"}}
C30_QueryFirst ==
    \A i \in MutIdx : Diffed /\ \E j \in StateQueries : j < i
C30_VerifyAfter ==
    /\ \A j \in DOMAIN last.trace :
          last.trace[j].c \in PollFns => \E i \in MutIdx : Verifies(j, i)
    /\ (MutIdx # {} /\ Raised = {} /\ ~last.crashed) =>
          \A i \in MutIdx : \E j \in DOMAIN last.trace : Verifies(j, i)
C30_NoCallAfterVerify ==
    \A i \in MutIdx : \A j \in DOMAIN last.trace : Verifies(j, i) =>
        \A m \in MutIdx :
            (m > j /\ VerifierOf(last.trace[m].c) = VerifierOf(last.trace[i].c)) =>
                PerItem(last.trace[i].c) /\ last.trace[m].s # last.trace[i].s
C30_NoSideEffects ==
    (last.test \/ ~Diffed \/ Unchanged) => MutIdx = {}
C30_NoRollback ==
    \A i \in MutIdx : \A m \in MutIdx :
        (i < m /\ Undoes(last.trace[i].c, last.trace[m].c)) =>
            last.trace[i].s # last.trace[m].s
C30_Ordering ==
    ncalls > 0 =>
        /\ C30_QueryFirst /\ C30_VerifyAfter /\ C30_NoCallAfterVerify
        /\ C30_NoSideEffects /\ C30_NoRollback

\* ------------------------------------------------------------------------
\* C31: a real option_managed makes every snap.option_unset call before any
\* snap.option_set call, each group in the order of the desired mapping, and
\* an unset that raises does not keep the sets that follow from being made.
\* ------------------------------------------------------------------------
OptionCalls(c) ==
    LET made == SelectSeq(last.trace, LAMBDA ev : ev.c = c)
    IN  [i \in DOMAIN made |-> made[i].s]
DesiredUnsets ==
    KeySeq(SelectSeq(OptDesired, LAMBDA o : o.v = None /\ o.k \in DOMAIN last.pre.options))
DesiredSets ==
    KeySeq(SelectSeq(OptDesired, LAMBDA o : o.v # None /\ ~OptAt(last.pre, o)))
C31_UnsetsThenSets ==
    (OptionsObserved /\ ~last.test) =>
        /\ \A i \in At("snap.option_unset") : \A j \in At("snap.option_set") : i < j
        /\ OptionCalls("snap.option_unset") = DesiredUnsets
        /\ OptionCalls("snap.option_set") = DesiredSets
C31_Witness ==
    /\ OptionsObserved /\ ~last.test
    /\ \E i \in At("snap.option_unset") \cap Raised : \E j \in At("snap.option_set") : i < j
    /\ OptionCalls("snap.option_set") = DesiredSets

\* ------------------------------------------------------------------------
\* C32: a real disconnected with a non-empty plan makes a single
\* snap.disconnect call for the whole plan and, unless that call raised,
\* queries snap.connections again; changes["disconnected"] lists exactly the
\* planned connections that are no longer established and is absent when
\* none was removed; the result is False iff a connection matching the plan
\* is still established, with the comment "some connections remained" when
\* the call did not raise, and True otherwise.
\* ------------------------------------------------------------------------
Gone == PlannedEdges \ Prov.established
StillThere == {c \in Prov.established :
                  /\ Own(c) = Join(decl.name, decl.connector)
                  /\ decl.target = None \/ Peer(c) = decl.target}
Remained == Contains(last.ret.text, "some connections remained")
EnabledWaits == {i \in Waits : last.trace[i].c = "snap.service_enabled"}
C33_BudgetWithinCaller ==
    (SvcPlans /\ ~last.test) =>
        \A i \in EnabledWaits : last.trace[i].a.timeout <= CallerTimeout

\* ------------------------------------------------------------------------
\* C34: _timer evaluates the predicate before it looks at the clock: a
\* service that reports the expected value at the first evaluation is
\* accepted without a sleep, whatever the timeout (0 included); _timer
\* returns normally only if the last evaluation gave the expected value; it
\* raises only right after an evaluation that gave another value and with
\* more time elapsed than the timeout.
\* ------------------------------------------------------------------------
\* what the provider answers to evaluation number p of the wait at i of the
\* trace: the expected value or not
Answers(i, p) ==
    LET n == last.trace[i].s
        e == last.env.svc[n]
        stays == /\ decl.op = "mod_watch" /\ e.call = "noop"
                 /\ last.pre.services[n].running = ExpectUp
        delay == IF stays THEN 0
                 ELSE IF last.trace[i].c = "snap.service_running" THEN e.rdelay
                 ELSE e.edelay
    IN  (e.call = "ok" \/ stays) /\ p - 1 >= delay
Sleeps(i) == last.trace[i].a.polls - 1
Returned(i) == last.trace[i].r = ExpectUp
C34_PollerSafety ==
    (ncalls > 0 /\ decl.op \in {"service_running", "service_dead", "mod_watch"}) =>
        \A i \in Waits :
            /\ Answers(i, 1) => Returned(i) /\ Sleeps(i) = 0
            /\ Returned(i) => Answers(i, last.trace[i].a.polls)
            /\ ~Returned(i) =>
                  /\ ~Answers(i, last.trace[i].a.polls)
                  /\ Sleeps(i) > last.trace[i].a.timeout * PollsPerSecond
            /\ \A p \in 1 .. Sleeps(i) : ~Answers(i, p)
C34_Witness ==
    /\ ncalls > 0 /\ decl.op \in {"service_running", "service_dead", "mod_watch"}
    /\ \E i \in Waits :
          /\ last.trace[i].a.timeout = 0
          /\ Answers(i, 1) /\ Returned(i) /\ Sleeps(i) = 0
    /\ \E i \in Waits : ~Returned(i) /\ last.trace[i].a.timeout = 0

\* ------------------------------------------------------------------------
\* C35: every call of service_running, service_dead and mod_watch ends with
\* a result, also when a service never reaches the expected state: every
\* wait ends after a number of polls bounded by its timeout, with the value
\* or with a timeout, and a timeout gives result False with the service
\* named in the comment; no exception escapes.
\* ------------------------------------------------------------------------
NeverComes(i) ==
    /\ last.env.svc[last.trace[i].s].call = "noop"
    /\ \A p \in 1 .. last.trace[i].a.polls : ~Answers(i, p)
C35_Termination ==
    (ncalls > 0 /\ decl.op \in {"service_running", "service_dead", "mod_watch"}) =>
        /\ ~last.crashed
        /\ last.ret.result \in {RTrue, RFalse, None}
        /\ \A i \in Waits :
              /\ Sleeps(i) <= last.trace[i].a.timeout * PollsPerSecond + 1
              /\ Returned(i) \/ TimeoutReported(i)
C35_Witness ==
    /\ ncalls > 0 /\ decl.op \in {"service_running", "service_dead", "mod_watch"}
    /\ ~last.crashed /\ last.ret.result = RFalse
    /\ \E i \in Waits :
          /\ NeverComes(i) /\ ~Returned(i) /\ TimeoutReported(i)
          /\ last.trace[i].a.timeout = DefaultTimeout
          /\ Sleeps(i) = DefaultTimeout * PollsPerSecond + 1

\* ------------------------------------------------------------------------
\* C36: a real installed with held=True for a snap that is absent, with a
\* provider that installs snaps unheld and applies every call, ends with the
\* snap installed and held and returns True with "installed": name in the
\* changes.
\* ------------------------------------------------------------------------
FirstInstall ==
    /\ ByName /\ ~last.test /\ ~WasPresent
    /\ last.env = InstalledHealthy
    /\ decl.revision # Latest
C36_HoldOnFirstInstall ==
    (FirstInstall /\ decl.held = RTrue) =>
        /\ decl.name \in DOMAIN Prov.snaps
        /\ Prov.snaps[decl.name].held
        /\ last.ret.result = RTrue
        /\ "installed" \in DOMAIN last.ret.changes
        /\ last.ret.changes["installed"] = decl.name

\* ------------------------------------------------------------------------
\* C37: in a real installed whose diff has a channel or revision change and
\* a held change, when snap.install succeeds and the snap.hold / snap.unhold
\* call after it raises, the result is False and the returned changes still
\* contain the channel / revision change that was applied.
\* ------------------------------------------------------------------------
HoldRaisedAfterInstall ==
    /\ ByName /\ ~last.test /\ WasPresent
    /\ "held" \in DiffKeys /\ DiffKeys \ {"held"} # {}
    /\ last.env.install = "ok"
    /\ At("snap.install") # {} /\ At("snap.install") \cap Raised = {}
    /\ At(HoldFn) # {} /\ At(HoldFn) \subseteq Raised
\* the entries of the diff that snap.install made
InstallApplied == {k \in DiffKeys \ {"held"} : k \notin InstalledResidual(Prov)}
C37_CommittedStayReported ==
    HoldRaisedAfterInstall =>
        /\ last.ret.result = RFalse
        /\ InstallApplied # {}
        /\ InstallApplied \subseteq DOMAIN last.ret.changes

\* ------------------------------------------------------------------------
\* C38: connected returns "already established" (True, no changes, no
\* snap.connect call) only if a connection from name:connector to the
\* resolved slot is established; a connection from a plug of the same name of
\* another snap to that slot does not count.  A real run that reports the
\* connection as made found it by the same criterion.
\* ------------------------------------------------------------------------
SaidEstablished ==
    /\ last.ret.result = RTrue /\ IsEmpty(last.ret.changes)
    /\ At("snap.connect") = {}
ForeignEdges ==
    {c \in last.pre.established :
        /\ c.psnap # decl.name /\ c.plug = decl.connector
        /\ c.ssnap = Resolved.snap /\ c.slot = Resolved.ent}
C38_OwnPlugOnly ==
    Resolves =>
        /\ SaidEstablished => ResolvedEdge \in last.pre.established
        /\ (~last.test /\ last.ret.result = RTrue /\ ~IsEmpty(last.ret.changes)) =>
              ResolvedEdge \in Prov.established

\* ------------------------------------------------------------------------
\* C39: disconnected with a bare snap name as target (no ":") ends in the
\* result record like every other input: it resolves the name to the
\* matching connections or returns False with a message, and no unhandled
\* error ends the call.
\* ------------------------------------------------------------------------
BareDisconnect == ncalls > 0 /\ decl.op = "disconnected" /\ BareTarget
C39_BareTargetUniform ==
    BareDisconnect =>
        /\ ~last.crashed
        /\ last.ret.result \in TriState
        /\ last.ret.result = RFalse => last.ret.text # ""

\* ------------------------------------------------------------------------
\* C40: in a dry run connected and disconnected return None, never False,
\* when a query they make before the changes are applied reports that the
\* snap is not installed, whichever query it is: the connections query of
\* disconnected and the plug lookup of connected included.
\* ------------------------------------------------------------------------
PlanningNotFound ==
    /\ ncalls > 0 /\ last.test /\ decl.op \in {"connected", "disconnected"}
    /\ last.trace # <<>>
    /\ last.trace[Len(last.trace)].k = "query"
    /\ last.trace[Len(last.trace)].err = "notfound"
FailedQuery == last.trace[Len(last.trace)].c
C40_UniformTolerance ==
    PlanningNotFound => ~last.crashed /\ last.ret.result = None

====
